---- MODULE Spec2Model ----
(***************************************************************************)
(* Runtime scanner of scangen: the per-DFA matching state, the parallel    *)
(* DFA search of Scanner::find_from / peek_from, and the match iterator    *)
(* FindMatches (next_match, peek_n, advance_beyond_match).                 *)
(*                                                                         *)
(* Rust's Option<T> is modelled as a sequence: None = << >>, Some(x) =     *)
(* <<x>>.  Rust vectors are 0-based; a vector v is the sequence whose      *)
(* element k+1 is v[k].  A CharIndices iterator over the input is the      *)
(* number of characters it has already consumed.                           *)
(***************************************************************************)
EXTENDS Integers, Sequences, FiniteSets, TLC

\* Longest input (in characters) the iterator is run on.
MaxLen == 4
\* Largest argument passed to peek_n.
MaxPeek == 3

None == << >>
Some(x) == <<x>>

(***************************************************************************)
(* The input: characters and their UTF-8 lengths.  "e" stands for a        *)
(* two-byte character (e with acute accent), "a" and "b" are one byte.     *)
(***************************************************************************)
Chars == {"a", "b", "e"}

len_utf8(c) == IF c = "e" THEN 2 ELSE 1

Inputs == UNION {[1..n -> Chars] : n \in 0..MaxLen}

\* Byte offset that char_indices reports for the character after the first
\* k characters of inp (the length in bytes of the input for k = Len(inp)).
RECURSIVE Off(_, _)
Off(inp, k) == IF k = 0 THEN 0 ELSE Off(inp, k - 1) + len_utf8(inp[k])

\* The character-class dispatcher handed to find_iter.
matches_char_class(c, char_class) ==
    CASE char_class = 0 -> c = "a"
      [] char_class = 1 -> c = "b"
      [] char_class = 2 -> c = "e"
      [] OTHER -> FALSE

(***************************************************************************)
(* Compiled tables (DfaData): accepting states, state ranges into the      *)
(* transitions, transitions (state, (char class, target state)).           *)
(***************************************************************************)
DFAS == <<
    \* 0: a
    [accepting_states |-> <<1>>,
     state_ranges |-> << <<0, 1>>, <<1, 1>> >>,
     transitions |-> << <<0, <<0, 1>> >> >>],
    \* 1: ab
    [accepting_states |-> <<2>>,
     state_ranges |-> << <<0, 1>>, <<1, 2>>, <<2, 2>> >>,
     transitions |-> << <<0, <<0, 1>> >>, <<1, <<1, 2>> >> >>],
    \* 2: e (two-byte character)
    [accepting_states |-> <<1>>,
     state_ranges |-> << <<0, 1>>, <<1, 1>> >>,
     transitions |-> << <<0, <<2, 1>> >> >>],
    \* 3: a(be)?
    [accepting_states |-> <<1, 3>>,
     state_ranges |-> << <<0, 1>>, <<1, 2>>, <<2, 3>>, <<3, 3>> >>,
     transitions |-> << <<0, <<0, 1>> >>, <<1, <<1, 2>> >>, <<2, <<2, 3>> >> >>],
    \* 4: b* (the start state accepts)
    [accepting_states |-> <<0>>,
     state_ranges |-> << <<0, 1>> >>,
     transitions |-> << <<0, <<1, 0>> >> >>]
  >>

(***************************************************************************)
(* Scanner mode tables (ScannerModeData): the name, the bindings (dfa       *)
(* index, token type) and the transitions (token type, next mode).         *)
(***************************************************************************)
ModeConfigs == {
    \* one mode, every DFA, token type = DFA index, no transitions
    << [name |-> "INITIAL",
        dfas |-> << <<0, 0>>, <<1, 1>>, <<2, 2>>, <<3, 3>>, <<4, 4>> >>,
        transitions |-> << >>] >>,
    \* two modes that switch on the two-byte character and on b*
    << [name |-> "INITIAL",
        dfas |-> << <<3, 5>>, <<0, 0>>, <<2, 2>> >>,
        transitions |-> << <<2, 1>> >>],
       [name |-> "STRING",
        dfas |-> << <<1, 1>>, <<4, 4>>, <<2, 2>>, <<0, 7>> >>,
        transitions |-> << <<4, 0>>, <<2, 0>> >>] >>,
    \* two modes, the first without the DFA for b and with one DFA bound twice
    << [name |-> "INITIAL",
        dfas |-> << <<0, 3>>, <<1, 1>>, <<1, 6>> >>,
        transitions |-> << <<3, 1>> >>],
       [name |-> "COMMENT",
        dfas |-> << <<4, 0>>, <<0, 3>>, <<2, 2>> >>,
        transitions |-> << <<0, 0>> >>] >>
  }

(***************************************************************************)
(* MatchingState                                                           *)
(***************************************************************************)
MatchingStateNew ==
    [state |-> "None", start_position |-> None, end_position |-> None,
     current_state |-> 0]

\* Mutant: a recorded match is dropped when no transition is found.
no_transition_forgets(ms) ==
    CASE ms.state = "None" -> ms
      [] ms.state = "Start" -> MatchingStateNew
      [] ms.state = "Accepting" -> MatchingStateNew
      [] OTHER -> ms

no_transition(ms) ==
    CASE ms.state = "None" -> ms
      [] ms.state = "Start" -> MatchingStateNew
      [] ms.state = "Accepting" -> [ms EXCEPT !.state = "Longest"]
      [] OTHER -> ms

\* Mutant: a further non-accepting transition restarts the match.
transition_to_non_accepting_restarts(ms, i) ==
    CASE ms.state = "None" ->
            [ms EXCEPT !.state = "Start", !.start_position = Some(i)]
      [] ms.state = "Start" -> [ms EXCEPT !.start_position = Some(i)]
      [] OTHER -> ms

transition_to_non_accepting(ms, i) ==
    CASE ms.state = "None" ->
            [ms EXCEPT !.state = "Start", !.start_position = Some(i)]
      [] OTHER -> ms

\* Mutant: the end of a match is the offset of its last character.
transition_to_accepting_at(ms, i, c) ==
    CASE ms.state = "None" ->
            [ms EXCEPT !.state = "Accepting", !.start_position = Some(i),
                       !.end_position = Some(i)]
      [] ms.state = "Start" ->
            [ms EXCEPT !.state = "Accepting", !.end_position = Some(i)]
      [] ms.state = "Accepting" ->
            [ms EXCEPT !.end_position = Some(i)]
      [] OTHER -> ms

transition_to_accepting(ms, i, c) ==
    CASE ms.state = "None" ->
            [ms EXCEPT !.state = "Accepting", !.start_position = Some(i),
                       !.end_position = Some(i + len_utf8(c))]
      [] ms.state = "Start" ->
            [ms EXCEPT !.state = "Accepting",
                       !.end_position = Some(i + len_utf8(c))]
      [] ms.state = "Accepting" ->
            [ms EXCEPT !.end_position = Some(i + len_utf8(c))]
      [] OTHER -> ms

\* The DFA state the matching state carries for runtime::Dfa.
current_state(ms) == ms.current_state

set_current_state(ms, state) == [ms EXCEPT !.current_state = state]

is_no_match(ms) == ms.state = "None"

is_longest_match(ms) == ms.state = "Longest"

\* Mutant: a span is given as soon as the start position is set.
last_match_from_start(ms) ==
    IF ms.start_position # None
    THEN Some([start |-> ms.start_position[1],
               end |-> IF ms.end_position # None THEN ms.end_position[1]
                       ELSE ms.start_position[1]])
    ELSE None

\* Option<Span>
last_match(ms) ==
    IF ms.start_position # None /\ ms.end_position # None
    THEN Some([start |-> ms.start_position[1], end |-> ms.end_position[1]])
    ELSE None

(***************************************************************************)
(* runtime::Dfa                                                            *)
(***************************************************************************)
\* Option<usize>: the target of the first transition of the current state
\* whose character class matches c.
find_transition(dfa, ms, c) ==
    LET range == dfa.state_ranges[current_state(ms) + 1]
        hits == {t \in (range[1] + 1)..range[2] :
                    matches_char_class(c, dfa.transitions[t][2][1])}
    IN  IF hits = {} THEN None
        ELSE Some(dfa.transitions[CHOOSE t \in hits : \A u \in hits : t <= u][2][2])

Contains(seq, x) == \E k \in DOMAIN seq : seq[k] = x

\* Mutant: a DFA that holds its longest match is advanced like any other.
advance_longest_too(dfa, ms, c_pos, c) ==
    LET next == find_transition(dfa, ms, c)
    IN  IF next # None
        THEN LET ms1 == IF Contains(dfa.accepting_states, next[1])
                        THEN transition_to_accepting(ms, c_pos, c)
                        ELSE transition_to_non_accepting(ms, c_pos)
             IN  set_current_state(ms1, next[1])
        ELSE no_transition(ms)

\* Dfa::advance
advance(dfa, ms, c_pos, c) ==
    IF is_longest_match(ms) THEN ms
    ELSE LET next == find_transition(dfa, ms, c)
         IN  IF next # None
             THEN LET ms1 == IF Contains(dfa.accepting_states, next[1])
                             THEN transition_to_accepting(ms, c_pos, c)
                             ELSE transition_to_non_accepting(ms, c_pos)
                  IN  set_current_state(ms1, next[1])
             ELSE no_transition(ms)

search_for_longer_match(ms) == ~is_longest_match(ms) /\ ~is_no_match(ms)

(***************************************************************************)
(* ScannerMode                                                             *)
(***************************************************************************)
\* The transitions sorted by token type (a stable sort, by insertion).
\* Mutant: the transitions are left in the order of the mode data.
sort_by_key_skipped(ts) == ts

RECURSIVE sort_by_key(_)
sort_by_key(ts) ==
    IF ts = << >> THEN << >>
    ELSE LET sorted == sort_by_key(SubSeq(ts, 1, Len(ts) - 1))
             x == ts[Len(ts)]
             n == Cardinality({k \in DOMAIN sorted : sorted[k][1] <= x[1]})
         IN  SubSeq(sorted, 1, n) \o <<x>> \o SubSeq(sorted, n + 1, Len(sorted))

\* A panic of the program (here: an index out of bounds).
Panic == [panic |-> "index out of bounds"]

IsPanic(x) == "panic" \in DOMAIN x

\* ScannerMode::new: the DFAs of the bindings are cloned from the scanner's
\* DFAs `dfas`, a sequence of indexes into DFAS; the transitions are sorted.
\* Indexing dfas out of its bounds panics.
ScannerModeNew(dfas, scanner_mode_data) ==
    IF \E k \in DOMAIN scanner_mode_data.dfas :
          scanner_mode_data.dfas[k][1] >= Len(dfas)
    THEN Panic
    ELSE [name |-> scanner_mode_data.name,
          dfas |-> [k \in DOMAIN scanner_mode_data.dfas |->
                       [dfa |-> dfas[scanner_mode_data.dfas[k][1] + 1],
                        token_type |-> scanner_mode_data.dfas[k][2]]],
          transitions |-> sort_by_key(scanner_mode_data.transitions)]

\* Option<usize>: the linear scan of ScannerMode::has_transition.
RECURSIVE has_transition_from(_, _, _)
has_transition_from(transitions, k, token_type) ==
    IF k > Len(transitions) THEN None
    ELSE IF token_type < transitions[k][1] THEN None
    ELSE IF token_type = transitions[k][1] THEN Some(transitions[k][2])
    ELSE has_transition_from(transitions, k + 1, token_type)

has_transition(mode, token_type) == has_transition_from(mode.transitions, 1, token_type)

(***************************************************************************)
(* Scanner.  A search works on the matching states dfas of the DFAs of the *)
(* current mode `mode`; the other modes' DFAs are not touched.             *)
(***************************************************************************)
\* Option<Match> of DfaWithTokenType::current_match
current_match(binding, ms) ==
    IF last_match(ms) = None THEN None
    ELSE Some([token_type |-> binding.token_type,
               start |-> last_match(ms)[1].start, end |-> last_match(ms)[1].end])

RECURSIVE find_first_longest_match_from(_, _, _, _)
find_first_longest_match_from(mode, dfas, k, current) ==
    IF k > Len(dfas) THEN current
    ELSE LET dfa_match == current_match(mode.dfas[k], dfas[k])
             take == /\ dfa_match # None
                     /\ \/ current = None
                        \/ dfa_match[1].start < current[1].start
                        \/ /\ dfa_match[1].start = current[1].start
                           /\ dfa_match[1].end - dfa_match[1].start
                                > current[1].end - current[1].start
         IN  find_first_longest_match_from(mode, dfas, k + 1,
                                           IF take THEN dfa_match ELSE current)

\* Mutant: among matches of equal start and length the later DFA wins.
RECURSIVE find_last_longest_match_from(_, _, _, _)
find_last_longest_match_from(mode, dfas, k, current) ==
    IF k > Len(dfas) THEN current
    ELSE LET dfa_match == current_match(mode.dfas[k], dfas[k])
             take == /\ dfa_match # None
                     /\ \/ current = None
                        \/ dfa_match[1].start < current[1].start
                        \/ /\ dfa_match[1].start = current[1].start
                           /\ dfa_match[1].end - dfa_match[1].start
                                >= current[1].end - current[1].start
         IN  find_last_longest_match_from(mode, dfas, k + 1,
                                          IF take THEN dfa_match ELSE current)

find_last_longest_match(mode, dfas) == find_last_longest_match_from(mode, dfas, 1, None)

find_first_longest_match(mode, dfas) == find_first_longest_match_from(mode, dfas, 1, None)

\* The matching states from the j-th on after every DFA of active has been
\* advanced by the character c at offset i.
RECURSIVE advance_active(_, _, _, _, _, _)
advance_active(mode, dfas, active, i, c, j) ==
    IF j > Len(dfas) THEN << >>
    ELSE << IF j \in active
            THEN advance(DFAS[mode.dfas[j].dfa + 1], dfas[j], i, c)
            ELSE dfas[j] >>
         \o advance_active(mode, dfas, active, i, c, j + 1)

\* Mutant: a DFA without a match is removed after the character at offset 0
\* only; later it stays active until it has its longest match.
retain_no_match_at_start(advanced, active, i) ==
    LET at_start == IF i = 0
                    THEN {j \in active : ~is_no_match(advanced[j])}
                    ELSE active
    IN  {j \in at_start : ~is_longest_match(advanced[j])}

\* The DFAs of active that stay active after the character at offset i:
\* after the character at offset 0 the DFAs without a match at the start are
\* removed, after every character the DFAs that have finished.
retain(advanced, active, i) ==
    LET at_start == IF i = 0
                    THEN {j \in active : ~is_no_match(advanced[j])}
                    ELSE active
    IN  {j \in at_start : search_for_longer_match(advanced[j])}

\* The loop over the characters of find_from and peek_from, from the k-th
\* character on.  active holds the positions of the DFAs still advanced.
\* Yields the matching states and the number of characters the loop has taken
\* from the iterator.  scan_step is the rest of one iteration once the active
\* DFAs have been advanced.
RECURSIVE scan(_, _, _, _, _)
RECURSIVE scan_step(_, _, _, _, _)
scan(mode, dfas, active, inp, k) ==
    IF k >= Len(inp) THEN [dfas |-> dfas, k |-> k]
    ELSE scan_step(mode,
                   advance_active(mode, dfas, active, Off(inp, k), inp[k + 1], 1),
                   active, inp, k)

scan_step(mode, advanced, active, inp, k) ==
    LET still == retain(advanced, active, Off(inp, k))
    IN  IF still = {} THEN [dfas |-> advanced, k |-> k + 1]
        ELSE scan(mode, advanced, still, inp, k + 1)

\* Mutant: the DFAs of the mode keep the matching states of the search
\* before.
reset_skipped(mode_dfas) == mode_dfas

\* Dfa::reset on every DFA of a mode.
RECURSIVE reset(_)
reset(mode_dfas) ==
    IF mode_dfas = << >> THEN << >>
    ELSE <<MatchingStateNew>> \o reset(Tail(mode_dfas))

\* The reset of every DFA of the mode followed by the loop.
search(mode, mode_dfas, inp, k) ==
    scan(mode, reset(mode_dfas), DOMAIN mode.dfas, inp, k)

\* Mutant: the mode is never switched.
execute_no_mode_switch(modes, current_mode, current_match_) == current_mode

execute_possible_mode_switch(modes, current_mode, current_match_) ==
    IF current_match_ # None
       /\ has_transition(modes[current_mode + 1], current_match_[1].token_type) # None
    THEN has_transition(modes[current_mode + 1], current_match_[1].token_type)[1]
    ELSE current_mode

\* The end of find_from, searched being what the loop has yielded.
find_from_searched(modes, current_mode, searched) ==
    LET m == find_first_longest_match(modes[current_mode + 1], searched.dfas)
    IN  [result |-> m,
         current_mode |-> execute_possible_mode_switch(modes, current_mode, m),
         dfas |-> searched.dfas]

\* find_from at the k-th character, mode_dfas being the matching states of the
\* current mode's DFAs: the match, the mode afterwards and the matching states
\* after the search.
find_from(modes, current_mode, mode_dfas, inp, k) ==
    find_from_searched(modes, current_mode,
                       search(modes[current_mode + 1], mode_dfas, inp, k))

\* The end of peek_from, searched being what the loop has yielded.
peek_from_searched(mode, searched) ==
    [result |-> find_first_longest_match(mode, searched.dfas),
     char_indices |-> searched.k,
     dfas |-> searched.dfas]

\* peek_from: the same search on the caller's iterator, which is left behind
\* the last character the loop has taken; no mode switch.
peek_from(modes, current_mode, mode_dfas, inp, k) ==
    peek_from_searched(modes[current_mode + 1],
                       search(modes[current_mode + 1], mode_dfas, inp, k))

(***************************************************************************)
(* FindMatches                                                             *)
(***************************************************************************)
\* Mutant: the character next_if refuses stays in the iterator.
RECURSIVE advance_beyond_match_keeps_refused(_, _, _)
advance_beyond_match_keeps_refused(inp, k, matched) ==
    IF k >= Len(inp) THEN k
    ELSE IF Off(inp, k) < matched.end - 1
         THEN advance_beyond_match_keeps_refused(inp, k + 1, matched)
         ELSE k

\* The iterator after advance_beyond_match: next_if takes every character
\* whose offset is below end - 1; the first character it refuses has been
\* taken from the iterator by the peekable, which is dropped.
RECURSIVE advance_beyond_match(_, _, _)
advance_beyond_match(inp, k, matched) ==
    IF k >= Len(inp) THEN k
    ELSE IF Off(inp, k) < matched.end - 1
         THEN advance_beyond_match(inp, k + 1, matched)
         ELSE k + 1

\* next_match with the iterator at the k-th character.  all_dfas holds the
\* matching states of every mode.  `at` and `mode` are the position and the
\* mode of the last find_from call.  next_match_found is what follows a call
\* of find_from that has returned found.
RECURSIVE next_match(_, _, _, _, _)
RECURSIVE next_match_found(_, _, _, _, _, _)
next_match(modes, mode, all_dfas, inp, k) ==
    next_match_found(modes, mode, all_dfas, inp, k,
                     find_from(modes, mode, all_dfas[mode + 1], inp, k))

\* Mutant: None is returned as soon as no match is found at the iterator.
next_match_found_at_once(modes, mode, all_dfas, inp, k, found) ==
    IF found.result # None
    THEN [result |-> found.result,
          char_indices |-> advance_beyond_match(inp, k, found.result[1]),
          current_mode |-> found.current_mode,
          dfas |-> [all_dfas EXCEPT ![mode + 1] = found.dfas],
          at |-> k, mode |-> mode]
    ELSE [result |-> None, char_indices |-> k, current_mode |-> mode,
          dfas |-> [all_dfas EXCEPT ![mode + 1] = found.dfas],
          at |-> k, mode |-> mode]

next_match_found(modes, mode, all_dfas, inp, k, found) ==
    IF found.result # None
    THEN [result |-> found.result,
          char_indices |-> advance_beyond_match(inp, k, found.result[1]),
          current_mode |-> found.current_mode,
          dfas |-> [all_dfas EXCEPT ![mode + 1] = found.dfas],
          at |-> k, mode |-> mode]
    ELSE IF k < Len(inp)
         THEN next_match(modes, mode, [all_dfas EXCEPT ![mode + 1] = found.dfas],
                         inp, k + 1)
         ELSE [result |-> None, char_indices |-> k, current_mode |-> mode,
               dfas |-> [all_dfas EXCEPT ![mode + 1] = found.dfas],
               at |-> k, mode |-> mode]

\* The loop of peek_n: `left` iterations to go, on the cloned iterator k.
\* peek_loop_peeked is what follows a call of peek_from that has returned
\* peeked.
RECURSIVE peek_loop(_, _, _, _, _, _, _)
RECURSIVE peek_loop_peeked(_, _, _, _, _, _, _)
peek_loop(modes, mode, all_dfas, inp, k, left, matches) ==
    IF left = 0
    THEN [matches |-> matches, mode_switch |-> FALSE, new_mode |-> 0,
          char_indices |-> k, dfas |-> all_dfas]
    ELSE peek_loop_peeked(modes, mode, all_dfas, inp, left, matches,
                          peek_from(modes, mode, all_dfas[mode + 1], inp, k))

peek_loop_peeked(modes, mode, all_dfas, inp, left, matches, peeked) ==
    IF peeked.result # None
    THEN LET switch == has_transition(modes[mode + 1], peeked.result[1].token_type)
         IN  IF switch # None
             THEN [matches |-> Append(matches, peeked.result[1]),
                   mode_switch |-> TRUE, new_mode |-> switch[1],
                   char_indices |-> peeked.char_indices,
                   dfas |-> [all_dfas EXCEPT ![mode + 1] = peeked.dfas]]
             ELSE peek_loop(modes, mode,
                            [all_dfas EXCEPT ![mode + 1] = peeked.dfas], inp,
                            peeked.char_indices, left - 1,
                            Append(matches, peeked.result[1]))
    ELSE [matches |-> matches, mode_switch |-> FALSE, new_mode |-> 0,
          char_indices |-> peeked.char_indices,
          dfas |-> [all_dfas EXCEPT ![mode + 1] = peeked.dfas]]

\* Mutant: the mode switch is looked at before the number of matches.
peek_result_switch_first(n, matches, mode_switch, new_mode) ==
    IF mode_switch
    THEN [kind |-> "MatchesReachedModeSwitch", matches |-> matches,
          new_mode |-> new_mode]
    ELSE IF Len(matches) = n THEN [kind |-> "Matches", matches |-> matches]
    ELSE IF matches = << >> THEN [kind |-> "NotFound"]
    ELSE [kind |-> "MatchesReachedEnd", matches |-> matches]

\* The PeekResult peek_n(n) makes of what its loop has collected.
peek_result(n, matches, mode_switch, new_mode) ==
    IF Len(matches) = n THEN [kind |-> "Matches", matches |-> matches]
    ELSE IF mode_switch
         THEN [kind |-> "MatchesReachedModeSwitch", matches |-> matches,
               new_mode |-> new_mode]
    ELSE IF matches = << >> THEN [kind |-> "NotFound"]
    ELSE [kind |-> "MatchesReachedEnd", matches |-> matches]

\* The end of peek_n(n), p being what its loop has yielded.
peek_n_peeked(n, p) ==
    [result |-> peek_result(n, p.matches, p.mode_switch, p.new_mode),
     char_indices |-> p.char_indices,
     dfas |-> p.dfas]

\* peek_n(n): the PeekResult, the cloned iterator at the end and the matching
\* states.
peek_n(modes, mode, all_dfas, inp, k, n) ==
    peek_n_peeked(n, peek_loop(modes, mode, all_dfas, inp, k, n, << >>))

(***************************************************************************)
(* The state: a scanner and one iterator over an input.                    *)
(***************************************************************************)
VARIABLES
    scanner_modes,  \* Scanner::scanner_modes
    current_mode,   \* Scanner::current_mode
    dfas,           \* the matching states of the DFAs of every mode
    input,          \* the haystack
    char_indices,   \* FindMatches::char_indices: characters consumed
    returned,       \* what the last call returned
    yielded,        \* the matches next_match has returned, with the mode searched
    builder,        \* the scanner builder: its stage and its fields
    calls,          \* the calls made on the builder, with their arguments
    matching_state, \* a MatchingState
    stepped,        \* the last call on matching_state, with its arguments
    unminimized,    \* the Dfa that minimize() is called on
    minimized,      \* Option of the Dfa that minimize() has returned
    minimizing,     \* Option of the locals of minimize() while its loop runs
    multi_pattern_nfa,  \* a MultiPatternNfa
    multi_pattern_dfa,  \* a MultiPatternDfa
    output,         \* the output sink of generate_code: what was written
    compiled,       \* what the last call at compile time has returned
    constructed     \* an Nfa under construction, with the last call on it

vars == <<scanner_modes, current_mode, dfas, input, char_indices, returned, yielded,
          builder, calls, matching_state, stepped, unminimized, minimized,
          minimizing, multi_pattern_nfa, multi_pattern_dfa, output, compiled,
          constructed>>

\* The variables of the matching state taken alone.
matching_vars == <<matching_state, stepped>>

\* The variables of the minimizer.
minimize_vars == <<unminimized, minimized, minimizing>>

\* The variables of the compilation of patterns.
compile_vars == <<multi_pattern_nfa, multi_pattern_dfa, output, compiled, constructed>>

\* The parts of the program a specification leaves aside stay as they are.
MatchingAside == matching_state = << >> /\ stepped = << >>

MinimizeAside == unminimized = << >> /\ minimized = << >> /\ minimizing = << >>

CompileAside ==
    /\ multi_pattern_nfa = << >>
    /\ multi_pattern_dfa = << >>
    /\ output = << >>
    /\ compiled = << >>
    /\ constructed = << >>

\* The variables of the scanner and its iterator.
scanner_vars ==
    <<scanner_modes, current_mode, dfas, input, char_indices, returned, yielded>>

\* The variables of the scanner builder.
builder_vars == <<builder, calls>>

\* The builder that has built the scanner from all of DFAS.
BuilderDone == [stage |-> "Scanner", dfas |-> <<0, 1, 2, 3, 4>>, scanner_modes |-> << >>]

\* A scanner built from DFAS and mode data, and find_iter(input).
Init ==
    /\ \E data \in ModeConfigs :
          /\ scanner_modes = [m \in DOMAIN data |->
                                 ScannerModeNew(<<0, 1, 2, 3, 4>>, data[m])]
          /\ dfas = [m \in DOMAIN data |->
                        [j \in DOMAIN data[m].dfas |-> MatchingStateNew]]
    /\ current_mode = 0
    /\ input \in Inputs
    /\ char_indices = 0
    /\ returned = [op |-> "find_iter"]
    /\ yielded = << >>
    /\ builder = BuilderDone
    /\ calls = << >>
    /\ MatchingAside
    /\ MinimizeAside
    /\ CompileAside

\* The state after next_match has returned r.
NextMatchReturns(r) ==
    /\ char_indices' = r.char_indices
    /\ current_mode' = r.current_mode
    /\ dfas' = r.dfas
    /\ returned' = [op |-> "next_match", result |-> r.result,
                    at |-> r.at, mode |-> r.mode]
    /\ yielded' = IF r.result # None
                  THEN Append(yielded, [match |-> r.result[1], mode |-> r.mode])
                  ELSE yielded
    /\ UNCHANGED <<scanner_modes, input>>
    /\ UNCHANGED <<builder_vars, matching_vars, minimize_vars, compile_vars>>

NextMatch ==
    NextMatchReturns(next_match(scanner_modes, current_mode, dfas, input, char_indices))

\* Mutant: peek_n runs on the iterator itself instead of on a clone of it.
PeekNOnIterator(n, r) ==
    /\ dfas' = r.dfas
    /\ char_indices' = r.char_indices
    /\ returned' = [op |-> "peek_n", n |-> n, result |-> r.result,
                    char_indices |-> r.char_indices]
    /\ UNCHANGED <<scanner_modes, current_mode, input, yielded>>
    /\ UNCHANGED <<builder_vars, matching_vars, minimize_vars, compile_vars>>

\* The state after peek_n(n) has returned r.
PeekNReturns(n, r) ==
    /\ dfas' = r.dfas
    /\ returned' = [op |-> "peek_n", n |-> n, result |-> r.result,
                    char_indices |-> r.char_indices]
    /\ UNCHANGED <<scanner_modes, current_mode, input, char_indices, yielded>>
    /\ UNCHANGED <<builder_vars, matching_vars, minimize_vars, compile_vars>>

PeekN ==
    \E n \in 0..MaxPeek :
        PeekNReturns(n, peek_n(scanner_modes, current_mode, dfas, input, char_indices, n))

Next == NextMatch \/ PeekN

Spec == Init /\ [][Next]_vars

(***************************************************************************)
(* ScannerBuilder.  A builder is its stage (the type of the builder value) *)
(* with the fields of that type; DFA data is a sequence of indexes into    *)
(* DFAS.  build() moves the fields into the scanner.                       *)
(***************************************************************************)
\* Most transitions in the mode data handed to the builder.
MaxTransitions == 3

\* The DFA data handed to the builder.
DfaDatas == {<< >>, <<0>>, <<0, 1>>, <<1, 0, 2>>, <<0, 1, 2, 3, 4>>}

\* Transition lists in every order, with one entry per token type at most.
TransitionLists ==
    {ts \in UNION {[1..n -> {0, 1, 3} \X {0, 1, 2}] : n \in 0..MaxTransitions} :
        \A i, j \in DOMAIN ts : ts[i][1] = ts[j][1] => i = j}

\* The scanner mode data handed to the builder.
ModeDatas ==
    {<< >>, <<[name |-> "EMPTY", dfas |-> << >>, transitions |-> << >>]>>}
    \cup ModeConfigs
    \cup {<<[name |-> "INITIAL", dfas |-> << <<0, 0>>, <<1, 1>>, <<0, 3>> >>,
             transitions |-> ts],
            [name |-> "A", dfas |-> << <<1, 1>> >>, transitions |-> << >>],
            [name |-> "B", dfas |-> << >>, transitions |-> << >>]>> :
          ts \in TransitionLists}

\* The token types has_transition is asked for.
TokenTypes == {0, 1, 2, 3, 8}

ScannerBuilderNew == [stage |-> "ScannerBuilder", dfas |-> << >>, scanner_modes |-> << >>]

\* The builder a call returns with the modes made by ScannerMode::new, if
\* none of them has panicked.
builder_with(stage, builder_dfas, made) ==
    IF \E m \in DOMAIN made : IsPanic(made[m])
    THEN [stage |-> "panic", dfas |-> << >>, scanner_modes |-> << >>]
    ELSE [stage |-> stage, dfas |-> builder_dfas, scanner_modes |-> made]

\* ScannerBuilder::add_scanner_mode_data: the modes are made from no DFAs.
add_scanner_mode_data(scanner_mode_data) ==
    builder_with("ScannerBuilderWithScannerModes", << >>,
                 [m \in DOMAIN scanner_mode_data |->
                     ScannerModeNew(<< >>, scanner_mode_data[m])])

\* ScannerBuilder::add_dfa_data
add_dfa_data(dfa_data) ==
    [stage |-> "ScannerBuilderWithsDfas", dfas |-> dfa_data, scanner_modes |-> << >>]

\* Mutant: the token types of the default mode start at 1.
create_default_mode_from_one(scanner) ==
    [scanner EXCEPT !.scanner_modes =
        Append(@, [name |-> "INITIAL",
                   dfas |-> [k \in DOMAIN scanner.dfas |->
                                [dfa |-> scanner.dfas[k], token_type |-> k]],
                   transitions |-> << >>])]

\* ScannerBuilder::create_default_mode
create_default_mode(scanner) ==
    [scanner EXCEPT !.scanner_modes =
        Append(@, [name |-> "INITIAL",
                   dfas |-> [k \in DOMAIN scanner.dfas |->
                                [dfa |-> scanner.dfas[k], token_type |-> k - 1]],
                   transitions |-> << >>])]

\* ScannerBuilderWithsDfas::add_scanner_mode_data
with_dfas_add_scanner_mode_data(self, scanner_mode_data) ==
    builder_with("ScannerBuilderWithsDfasAndScannerModes", self.dfas,
                 [m \in DOMAIN scanner_mode_data |->
                     ScannerModeNew(self.dfas, scanner_mode_data[m])])

\* ScannerBuilderWithsDfas::build
with_dfas_build(self) ==
    create_default_mode([dfas |-> self.dfas, scanner_modes |-> << >>,
                         current_mode |-> 0])

\* ScannerBuilderWithScannerModes::add_dfa_data
with_modes_add_dfa_data(self, dfa_data) ==
    [stage |-> "ScannerBuilderWithsDfasAndScannerModes", dfas |-> dfa_data,
     scanner_modes |-> self.scanner_modes]

\* ScannerBuilderWithsDfasAndScannerModes::build
with_dfas_and_modes_build(self) ==
    IF self.scanner_modes = << >>
    THEN create_default_mode([dfas |-> self.dfas, scanner_modes |-> << >>,
                              current_mode |-> 0])
    ELSE [dfas |-> self.dfas, scanner_modes |-> self.scanner_modes,
          current_mode |-> 0]

\* A call has returned the next builder, or has panicked.
BuilderReturns(op, data, next) ==
    /\ builder' = next
    /\ calls' = Append(calls, [op |-> op, data |-> data])
    /\ UNCHANGED <<scanner_vars, matching_vars, minimize_vars, compile_vars>>

\* build() has returned the scanner.
BuildReturns(scanner) ==
    /\ builder' = [stage |-> "Scanner", dfas |-> scanner.dfas, scanner_modes |-> << >>]
    /\ calls' = Append(calls, [op |-> "build", data |-> << >>])
    /\ scanner_modes' = scanner.scanner_modes
    /\ current_mode' = scanner.current_mode
    /\ dfas' = [m \in DOMAIN scanner.scanner_modes |->
                   [j \in DOMAIN scanner.scanner_modes[m].dfas |-> MatchingStateNew]]
    /\ UNCHANGED <<input, char_indices, returned, yielded>>
    /\ UNCHANGED <<matching_vars, minimize_vars, compile_vars>>

AddScannerModeData ==
    /\ builder.stage = "ScannerBuilder"
    /\ \E data \in ModeDatas :
          BuilderReturns("add_scanner_mode_data", data, add_scanner_mode_data(data))

AddDfaData ==
    /\ builder.stage = "ScannerBuilder"
    /\ \E data \in DfaDatas : BuilderReturns("add_dfa_data", data, add_dfa_data(data))

WithDfasAddScannerModeData ==
    /\ builder.stage = "ScannerBuilderWithsDfas"
    /\ \E data \in ModeDatas :
          BuilderReturns("add_scanner_mode_data", data,
                         with_dfas_add_scanner_mode_data(builder, data))

WithDfasBuild ==
    /\ builder.stage = "ScannerBuilderWithsDfas"
    /\ BuildReturns(with_dfas_build(builder))

WithModesAddDfaData ==
    /\ builder.stage = "ScannerBuilderWithScannerModes"
    /\ \E data \in DfaDatas :
          BuilderReturns("add_dfa_data", data, with_modes_add_dfa_data(builder, data))

WithDfasAndModesBuild ==
    /\ builder.stage = "ScannerBuilderWithsDfasAndScannerModes"
    /\ BuildReturns(with_dfas_and_modes_build(builder))

\* has_transition asked of a mode of the scanner that was built.
HasTransition ==
    /\ builder.stage = "Scanner"
    /\ \E m \in DOMAIN scanner_modes, token_type \in TokenTypes :
          returned' = [op |-> "has_transition", mode |-> m - 1,
                       token_type |-> token_type,
                       result |-> has_transition(scanner_modes[m], token_type)]
    /\ UNCHANGED <<scanner_modes, current_mode, dfas, input, char_indices, yielded>>
    /\ UNCHANGED <<builder_vars, matching_vars, minimize_vars, compile_vars>>

BuilderInit ==
    /\ builder = ScannerBuilderNew
    /\ calls = << >>
    /\ scanner_modes = << >>
    /\ current_mode = 0
    /\ dfas = << >>
    /\ input = << >>
    /\ char_indices = 0
    /\ returned = [op |-> "new"]
    /\ yielded = << >>
    /\ MatchingAside
    /\ MinimizeAside
    /\ CompileAside

BuilderNext ==
    \/ AddScannerModeData
    \/ AddDfaData
    \/ WithDfasAddScannerModeData
    \/ WithDfasBuild
    \/ WithModesAddDfaData
    \/ WithDfasAndModesBuild
    \/ HasTransition

SpecBuilder == BuilderInit /\ [][BuilderNext]_vars

(***************************************************************************)
(* What the properties below are stated with.                              *)
(***************************************************************************)
Range(seq) == {seq[k] : k \in DOMAIN seq}

Max(S) == CHOOSE x \in S : \A y \in S : y <= x

\* The state a compiled DFA goes to from state s on the character c, read
\* from the edges (source state, (class, target)) of its table; -1 if there
\* is none.
Delta(dfa, s, c) ==
    LET edges == {t \in DOMAIN dfa.transitions :
                    /\ dfa.transitions[t][1] = s
                    /\ matches_char_class(c, dfa.transitions[t][2][1])}
    IN  IF edges = {} THEN -1
        ELSE dfa.transitions[CHOOSE t \in edges : \A u \in edges : t <= u][2][2]

\* The state the characters p+1 .. q of inp drive a DFA to from state 0.
RECURSIVE Run(_, _, _, _)
Run(dfa, inp, p, q) ==
    IF q = p THEN 0
    ELSE LET s == Run(dfa, inp, p, q - 1)
         IN  IF s = -1 THEN -1 ELSE Delta(dfa, s, inp[q])

\* The ends q > p of the non-empty spans from p that a DFA accepts.
AcceptedEnds(dfa, inp, p) ==
    {q \in (p + 1)..Len(inp) : Run(dfa, inp, p, q) \in Range(dfa.accepting_states)}

\* The positions of the DFAs of a mode that have a recorded match.
Recorded(mode_dfas) == {j \in DOMAIN mode_dfas : last_match(mode_dfas[j]) # None}

SpanOf(ms) == last_match(ms)[1]

SpanLen(span) == span.end - span.start

\* next_match has just returned a match.
Matched == returned.op = "next_match" /\ returned.result # None

(***************************************************************************)
(* C1  Winner selection of find_from.  When next_match returns, the DFAs   *)
(* of the mode searched hold the matches recorded by the last find_from.   *)
(* The match returned is the recorded match of a DFA w that beats every    *)
(* other DFA with a recorded match: smaller start, or equal start and      *)
(* greater length, or equal start and length and earlier in the mode's     *)
(* binding list; its token type is the one bound to w.  No match is        *)
(* returned only if no DFA has recorded one.                               *)
(***************************************************************************)
C1_WinnerSelection ==
    returned.op = "next_match" =>
        LET mode == scanner_modes[returned.mode + 1]
            st == dfas[returned.mode + 1]
        IN  IF returned.result = None THEN Recorded(st) = {}
            ELSE \E w \in Recorded(st) :
                    /\ returned.result[1] =
                         [token_type |-> mode.dfas[w].token_type,
                          start |-> SpanOf(st[w]).start, end |-> SpanOf(st[w]).end]
                    /\ \A j \in Recorded(st) \ {w} :
                          \/ SpanOf(st[w]).start < SpanOf(st[j]).start
                          \/ /\ SpanOf(st[w]).start = SpanOf(st[j]).start
                             /\ SpanLen(SpanOf(st[w])) > SpanLen(SpanOf(st[j]))
                          \/ /\ SpanOf(st[w]).start = SpanOf(st[j]).start
                             /\ SpanLen(SpanOf(st[w])) = SpanLen(SpanOf(st[j]))
                             /\ w < j

\* A longer match of a later DFA has won over an earlier DFA, and a later
\* DFA with the same span has lost against the winner.
C1_Witness ==
    /\ Matched
    /\ LET mode == scanner_modes[returned.mode + 1]
           st == dfas[returned.mode + 1]
       IN  \E w, j, l \in Recorded(st) :
              /\ j < w /\ w < l
              /\ returned.result[1].token_type = mode.dfas[w].token_type
              /\ returned.result[1].end = SpanOf(st[w]).end
              /\ SpanLen(SpanOf(st[j])) < SpanLen(SpanOf(st[w]))
              /\ SpanOf(st[l]) = SpanOf(st[w])
              /\ mode.dfas[l].token_type # mode.dfas[w].token_type

(***************************************************************************)
(* C2  Longest match with backoff.  After the search that next_match ran   *)
(* last, at character p, every DFA of the mode searched has recorded the   *)
(* span from p to the largest q > p such that the characters of [p, q)     *)
(* drive it from state 0 into an accepting state, and has recorded nothing *)
(* if there is no such q.                                                  *)
(***************************************************************************)
C2_LongestMatchWithBackoff ==
    returned.op = "next_match" =>
        LET mode == scanner_modes[returned.mode + 1]
            st == dfas[returned.mode + 1]
            p == returned.at
        IN  \A j \in DOMAIN st :
               LET ends == AcceptedEnds(DFAS[mode.dfas[j].dfa + 1], input, p)
               IN  IF ends = {} THEN last_match(st[j]) = None
                   ELSE last_match(st[j]) =
                          Some([start |-> Off(input, p), end |-> Off(input, Max(ends))])

\* A DFA went on from an accepting state into a non-accepting one, found no
\* transition there and fell back to the span recorded before.
C2_Witness ==
    /\ returned.op = "next_match"
    /\ LET mode == scanner_modes[returned.mode + 1]
           st == dfas[returned.mode + 1]
       IN  \E j \in DOMAIN st :
              /\ st[j].state = "Longest"
              /\ ~Contains(DFAS[mode.dfas[j].dfa + 1].accepting_states,
                           current_state(st[j]))
              /\ SpanOf(st[j]).end < Off(input, Len(input)) - 1

(***************************************************************************)
(* C3  Iterator non-overlap and order.  Of two successive matches yielded  *)
(* by the iterator the second starts at or after the end of the first, and *)
(* its start is strictly greater than the start of the first.              *)
(***************************************************************************)
C3_NonOverlap ==
    \A k \in 1..(Len(yielded) - 1) :
        /\ yielded[k].match.end <= yielded[k + 1].match.start
        /\ yielded[k].match.start < yielded[k + 1].match.start

\* Three matches, two of them adjacent and two of them apart.
C3_Witness ==
    /\ Len(yielded) >= 3
    /\ \E k \in 1..(Len(yielded) - 1) :
          yielded[k].match.end = yielded[k + 1].match.start
    /\ \E k \in 1..(Len(yielded) - 1) :
          yielded[k].match.end < yielded[k + 1].match.start

\* The number of characters before the byte offset off.
CharAt(inp, off) == CHOOSE k \in 0..Len(inp) : Off(inp, k) = off

\* Some DFA of the mode accepts a non-empty span that starts at character p.
MatchesAt(mode, inp, p) ==
    \E j \in DOMAIN mode.dfas : AcceptedEnds(DFAS[mode.dfas[j].dfa + 1], inp, p) # {}

\* The next modes the transition data of a mode gives for a token type.
Targets(mode, token_type) ==
    {t[2] : t \in {u \in Range(mode.transitions) : u[1] = token_type}}

\* The matches a PeekResult holds.
PeekMatches(r) == IF r.kind = "NotFound" THEN << >> ELSE r.matches

\* The matches that up to n successive calls of next_match return, up to and
\* with the first match whose token type has a transition.
RECURSIVE NextMatches(_, _, _, _, _, _)
RECURSIVE NextMatchesReturned(_, _, _, _, _)
NextMatches(modes, mode, all_dfas, inp, k, n) ==
    IF n = 0 THEN << >>
    ELSE NextMatchesReturned(modes, mode, inp, n,
                             next_match(modes, mode, all_dfas, inp, k))

NextMatchesReturned(modes, mode, inp, n, r) ==
    IF r.result = None THEN << >>
    ELSE IF Targets(modes[mode + 1], r.result[1].token_type) # {}
         THEN <<r.result[1]>>
         ELSE <<r.result[1]>>
              \o NextMatches(modes, mode, r.dfas, inp, r.char_indices, n - 1)

(***************************************************************************)
(* C4  After next_match has returned a match m the iterator stands at the  *)
(* byte offset m.end, for every input.                                     *)
(* Fails on the code: after a match whose last character is longer than    *)
(* one byte the iterator has also consumed the character that follows.     *)
(***************************************************************************)
C4_CursorAtMatchEnd ==
    Matched => Off(input, char_indices) = returned.result[1].end

(***************************************************************************)
(* C5  Unmatched input is skipped one character at a time: at no position  *)
(* between the end of a yielded match (or the start of the input) and the  *)
(* start of the next yielded match does a DFA of the mode searched match,  *)
(* and next_match returns None only with the input exhausted and no match  *)
(* at any position from the end of the last yielded match on.              *)
(* Fails on the code because of the extra character consumed after a match *)
(* that ends in a character of more than one byte (C4).                    *)
(***************************************************************************)
C5_SkippedPositionsUnmatched ==
    /\ \A n \in 1..Len(yielded) :
          LET from == IF n = 1 THEN 0 ELSE CharAt(input, yielded[n - 1].match.end)
              to == CharAt(input, yielded[n].match.start)
          IN  \A p \in from..(to - 1) :
                 ~MatchesAt(scanner_modes[yielded[n].mode + 1], input, p)
    /\ (returned.op = "next_match" /\ returned.result = None) =>
          /\ char_indices = Len(input)
          /\ LET from == IF yielded = << >> THEN 0
                         ELSE CharAt(input, yielded[Len(yielded)].match.end)
             IN  \A p \in from..(Len(input) - 1) :
                    ~MatchesAt(scanner_modes[current_mode + 1], input, p)

(***************************************************************************)
(* C6  Mode switch after emission.  Every call of next_match searches in   *)
(* the mode that is current when it is called and touches the DFAs of that *)
(* mode only; the match it returns carries a token type bound in that      *)
(* mode; if that token type has a transition (t, next) in that mode, the   *)
(* current mode is next afterwards; if there is no match, or no transition *)
(* for its token type, the current mode is unchanged.                      *)
(***************************************************************************)
C6_ModeSwitchAfterEmission ==
    [][returned'.op = "next_match" =>
         LET mode == scanner_modes[current_mode + 1]
             m == returned'.result
             next == IF m = None THEN {} ELSE Targets(mode, m[1].token_type)
         IN  /\ returned'.mode = current_mode
             /\ m # None =>
                  m[1].token_type \in {mode.dfas[j].token_type : j \in DOMAIN mode.dfas}
             /\ IF next = {} THEN current_mode' = current_mode
                ELSE current_mode' \in next
             /\ \A o \in DOMAIN dfas : o # current_mode + 1 => dfas'[o] = dfas[o]
      ]_vars

\* A match has switched the mode, and the match before it was found in
\* another mode than it.
C6_Witness ==
    /\ Matched
    /\ current_mode # returned.mode
    /\ Len(yielded) >= 2
    /\ yielded[Len(yielded) - 1].mode # yielded[Len(yielded)].mode

(***************************************************************************)
(* C7  Peek purity.  peek_n(n) leaves the current mode and the iterator    *)
(* unchanged, and next_match called after it returns the same match, and   *)
(* leaves the same iterator and mode, as next_match called instead of it.  *)
(***************************************************************************)
C7_PeekPurity ==
    [][returned'.op = "peek_n" =>
         /\ current_mode' = current_mode
         /\ char_indices' = char_indices
         /\ LET before == next_match(scanner_modes, current_mode, dfas,
                                     input, char_indices)
                after == next_match(scanner_modes', current_mode', dfas',
                                    input', char_indices')
            IN  /\ after.result = before.result
                /\ after.char_indices = before.char_indices
                /\ after.current_mode = before.current_mode
      ]_vars

\* A peek has collected two matches, so that the DFAs were left by a search
\* further on in the input, and next_match has a match to return.
C7_Witness ==
    /\ returned.op = "peek_n"
    /\ Len(PeekMatches(returned.result)) >= 2
    /\ dfas[current_mode + 1] # reset(dfas[current_mode + 1])
    /\ next_match(scanner_modes, current_mode, dfas, input, char_indices).result # None

(***************************************************************************)
(* C8  peek_n(n) returns, in order, the matches that successive calls of   *)
(* next_match from the same iterator state would return, up to the first   *)
(* match that triggers a mode switch.                                      *)
(* Fails on the code: peek_from leaves the cloned iterator behind the      *)
(* character that ended its search, and peek_n gives up at the first       *)
(* position without a match.                                               *)
(***************************************************************************)
C8_PeekReturnsNextMatches ==
    returned.op = "peek_n" =>
        PeekMatches(returned.result) =
            NextMatches(scanner_modes, current_mode, dfas, input, char_indices,
                        returned.n)

(***************************************************************************)
(* C9  peek_n(n) collects at most n matches and none after a match whose   *)
(* token type has a transition in the current mode.  It returns Matches(v) *)
(* exactly if it has collected n matches; with fewer than n matches, the   *)
(* last of which has a transition, it returns MatchesReachedModeSwitch((v, *)
(* m)) with m the target of that transition, and only then; the current    *)
(* mode is not changed.                                                    *)
(***************************************************************************)
C9_PeekStopsAtModeSwitch ==
    [][returned'.op = "peek_n" =>
         LET mode == scanner_modes[current_mode + 1]
             r == returned'.result
             n == returned'.n
             v == PeekMatches(r)
             switching == v # << >> /\ Targets(mode, v[Len(v)].token_type) # {}
         IN  /\ Len(v) <= n
             /\ \A i \in 1..(Len(v) - 1) : Targets(mode, v[i].token_type) = {}
             /\ r.kind = "Matches" <=> Len(v) = n
             /\ r.kind = "MatchesReachedModeSwitch" <=> (Len(v) < n /\ switching)
             /\ r.kind = "MatchesReachedModeSwitch" =>
                  r.new_mode \in Targets(mode, v[Len(v)].token_type)
             /\ current_mode' = current_mode
      ]_vars

\* A peek has stopped at the second match it has collected, for its mode
\* switch, with more matches asked for.
C9_Witness ==
    /\ returned.op = "peek_n"
    /\ returned.result.kind = "MatchesReachedModeSwitch"
    /\ Len(returned.result.matches) = 2
    /\ returned.n > 2
    /\ returned.result.new_mode # current_mode

(***************************************************************************)
(* C10 peek_n(n) returns MatchesReachedEnd(v) only if the peek has reached *)
(* the end of the input, and NotFound only if there is no match ahead.     *)
(* Fails on the code: peek_n stops at the first position at which no DFA   *)
(* of the mode matches, where next_match would go on to the next position. *)
(***************************************************************************)
C10_PeekEndOrNotFound ==
    returned.op = "peek_n" =>
        /\ returned.result.kind = "MatchesReachedEnd" =>
              returned.char_indices = Len(input)
        /\ returned.result.kind = "NotFound" =>
              next_match(scanner_modes, current_mode, dfas, input,
                         char_indices).result = None

(***************************************************************************)
(* What the properties of the builder are stated with.                     *)
(***************************************************************************)
\* The calls of op made on the builder.
CallsOf(op) == {i \in DOMAIN calls : calls[i].op = op}

\* The DFA data and the mode data the builder was given (with both given).
GivenDfaData == calls[CHOOSE i \in CallsOf("add_dfa_data") : TRUE].data

GivenModeData == calls[CHOOSE i \in CallsOf("add_scanner_mode_data") : TRUE].data

\* The scanner was built by the calls ops, in this order.
BuiltBy(ops) ==
    /\ builder.stage = "Scanner"
    /\ Len(calls) = Len(ops)
    /\ \A i \in DOMAIN ops : calls[i].op = ops[i]

\* add_dfa_data followed by add_scanner_mode_data panics.
DfasFirstPanics(dfa_data, scanner_mode_data) ==
    with_dfas_add_scanner_mode_data(add_dfa_data(dfa_data),
                                    scanner_mode_data).stage = "panic"

\* The scanner that add_dfa_data, add_scanner_mode_data, build() yield.
DfasFirst(dfa_data, scanner_mode_data) ==
    with_dfas_and_modes_build(
        with_dfas_add_scanner_mode_data(add_dfa_data(dfa_data), scanner_mode_data))

(***************************************************************************)
(* C11 Default mode.  A scanner built without scanner mode data, or with   *)
(* an empty list of modes, has exactly one mode; it is named INITIAL,      *)
(* holds every DFA of the DFA data in the order given, the k-th with token *)
(* type k (from 0), and has no transitions; the current mode is 0.         *)
(***************************************************************************)
C11_DefaultMode ==
    (/\ builder.stage = "Scanner"
     /\ CallsOf("add_dfa_data") # {}
     /\ \A i \in CallsOf("add_scanner_mode_data") : calls[i].data = << >>) =>
        /\ Len(scanner_modes) = 1
        /\ scanner_modes[1].name = "INITIAL"
        /\ Len(scanner_modes[1].dfas) = Len(GivenDfaData)
        /\ \A k \in DOMAIN GivenDfaData :
              /\ scanner_modes[1].dfas[k].dfa = GivenDfaData[k]
              /\ scanner_modes[1].dfas[k].token_type = k - 1
        /\ scanner_modes[1].transitions = << >>
        /\ current_mode = 0

\* A scanner built of three DFAs and an empty list of modes.
C11_Witness ==
    /\ BuiltBy(<<"add_dfa_data", "add_scanner_mode_data", "build">>)
    /\ GivenModeData = << >>
    /\ Len(GivenDfaData) = 3

(***************************************************************************)
(* C12 Builder stages commute.  A scanner built by add_scanner_mode_data,  *)
(* add_dfa_data, build() has the modes, bindings and transitions of the    *)
(* scanner built by add_dfa_data, add_scanner_mode_data, build() from the  *)
(* same data; and where add_scanner_mode_data called first panics, no DFA  *)
(* data makes the other order yield a scanner from that mode data.         *)
(* Fails on the code: ScannerBuilder::add_scanner_mode_data makes the      *)
(* modes from an empty list of DFAs and panics on the first binding.       *)
(***************************************************************************)
C12_BuilderStagesCommute ==
    /\ BuiltBy(<<"add_scanner_mode_data", "add_dfa_data", "build">>) =>
          /\ ~DfasFirstPanics(GivenDfaData, GivenModeData)
          /\ scanner_modes = DfasFirst(GivenDfaData, GivenModeData).scanner_modes
          /\ builder.dfas = DfasFirst(GivenDfaData, GivenModeData).dfas
          /\ current_mode = DfasFirst(GivenDfaData, GivenModeData).current_mode
    /\ (builder.stage = "panic" /\ calls[1].op = "add_scanner_mode_data") =>
          \A dfa_data \in DfaDatas :
              DfasFirstPanics(dfa_data, calls[1].data)

(***************************************************************************)
(* C13 has_transition(t) on a mode of the scanner returns Some(next)       *)
(* exactly if the transitions of the mode data of that mode hold (t, next) *)
(* and None if they hold no entry for t, in whatever order the entries     *)
(* were given.                                                             *)
(***************************************************************************)
GivenTransitions(mode) ==
    IF CallsOf("add_scanner_mode_data") = {} THEN << >>
    ELSE IF GivenModeData = << >> THEN << >>
    ELSE GivenModeData[mode + 1].transitions

C13_HasTransition ==
    returned.op = "has_transition" =>
        /\ \A next \in 0..2 :
              returned.result = Some(next) <=>
                 <<returned.token_type, next>> \in Range(GivenTransitions(returned.mode))
        /\ returned.result = None <=>
              \A ts \in Range(GivenTransitions(returned.mode)) :
                  ts[1] # returned.token_type

\* The transition for token type 3 is found where it was given first, before
\* the transitions for 0 and 1.
C13_Witness ==
    /\ returned.op = "has_transition"
    /\ returned.token_type = 3
    /\ returned.result = Some(2)
    /\ Len(GivenTransitions(returned.mode)) = 3
    /\ GivenTransitions(returned.mode)[1] = <<3, 2>>

(***************************************************************************)
(* C14  No empty match.  Every match that next_match has returned, every   *)
(* match in the result of peek_n, and every match a DFA of the scanner     *)
(* holds after find_from or peek_from has start < end, also in modes that  *)
(* bind a pattern accepting the empty string.                              *)
(***************************************************************************)
C14_NoEmptyMatch ==
    /\ \A y \in DOMAIN yielded : yielded[y].match.start < yielded[y].match.end
    /\ returned.op = "next_match" /\ returned.result # None =>
          returned.result[1].start < returned.result[1].end
    /\ returned.op = "peek_n" =>
          \A k \in DOMAIN PeekMatches(returned.result) :
             PeekMatches(returned.result)[k].start < PeekMatches(returned.result)[k].end
    /\ \A m \in DOMAIN dfas : \A j \in Recorded(dfas[m]) :
          SpanOf(dfas[m][j]).start < SpanOf(dfas[m][j]).end

\* A mode that binds b*, whose start state accepts, was searched from a
\* position where b* matches the empty string only, and another pattern
\* of the mode has matched there.
C14_Witness ==
    /\ Matched
    /\ \E j \in DOMAIN scanner_modes[returned.mode + 1].dfas :
          /\ scanner_modes[returned.mode + 1].dfas[j].dfa = 4
          /\ j \notin Recorded(dfas[returned.mode + 1])
    /\ returned.at = CharAt(input, returned.result[1].start)
    /\ input[returned.at + 1] = "a"

(***************************************************************************)
(* C22  find_from anchors at the cursor.  In a search from any cursor      *)
(* position, a DFA whose matching state is None after a character is not   *)
(* in the active set after that character, and a DFA that is not in the    *)
(* active set keeps its matching state for the rest of the search; every   *)
(* match find_from or peek_from returns starts at the byte offset of the   *)
(* first character at the cursor.                                          *)
(***************************************************************************)
\* The loop of find_from and peek_from after at most n of its iterations,
\* from the k-th character on: the matching states, the active DFAs and the
\* number of characters taken.
RECURSIVE loop_after(_, _, _, _, _, _)
RECURSIVE loop_after_advanced(_, _, _, _, _, _)
loop_after(mode, mode_dfas, active, inp, k, n) ==
    IF n = 0 \/ k >= Len(inp) \/ active = {}
    THEN [dfas |-> mode_dfas, active |-> active, k |-> k]
    ELSE loop_after_advanced(mode,
            advance_active(mode, mode_dfas, active, Off(inp, k), inp[k + 1], 1),
            active, inp, k, n)

loop_after_advanced(mode, advanced, active, inp, k, n) ==
    loop_after(mode, advanced, retain(advanced, active, Off(inp, k)), inp, k + 1, n - 1)

\* The loop of a search in mode m (1-based) from the k-th character on, after
\* at most n iterations.
searching(m, k, n) ==
    loop_after(scanner_modes[m], reset(dfas[m]), DOMAIN scanner_modes[m].dfas,
               input, k, n)

removed_when_no_match(before, after) ==
    \A j \in DOMAIN before.dfas :
        /\ is_no_match(before.dfas[j]) => j \notin before.active
        /\ j \notin before.active => after.dfas[j] = before.dfas[j]

starts_at(result, inp, k) == result # None => result[1].start = Off(inp, k)

C22_AnchoredAtCursor ==
    \A m \in DOMAIN scanner_modes : \A k \in 0..Len(input) :
        /\ \A n \in 1..(Len(input) - k) :
              removed_when_no_match(searching(m, k, n), searching(m, k, n + 1))
        /\ searching(m, k, Len(input)).dfas
              = search(scanner_modes[m], dfas[m], input, k).dfas
        /\ starts_at(find_from(scanner_modes, m - 1, dfas[m], input, k).result,
                     input, k)
        /\ starts_at(peek_from(scanner_modes, m - 1, dfas[m], input, k).result,
                     input, k)

\* next_match has returned a match found from a cursor behind byte offset
\* 0; in that search a DFA had no match after the first character, whose
\* offset is not 0, and the search went on with other DFAs, one of which
\* gave the match, longer than one character.
C22_Witness ==
    /\ Matched
    /\ returned.at > 0
    /\ returned.result[1].start = Off(input, returned.at)
    /\ returned.result[1].end > Off(input, returned.at + 1)
    /\ \E j \in DOMAIN dfas[returned.mode + 1] :
          /\ is_no_match(searching(returned.mode + 1, returned.at, 1).dfas[j])
          /\ is_no_match(dfas[returned.mode + 1][j])
    /\ searching(returned.mode + 1, returned.at, 1).active # {}

(***************************************************************************)
(* C23  find_from is a function of the current mode and the remaining      *)
(* input.  Whatever searches, peeks and mode switches came before, a call  *)
(* of find_from in a mode, from a cursor, returns what it returns on a     *)
(* scanner whose DFAs were never advanced, and the match it returns is the *)
(* one it returns on the remaining input alone, moved by the byte offset   *)
(* of the cursor; a search changes the matching states of the DFAs of the  *)
(* current mode only.                                                      *)
(***************************************************************************)
\* The matching states of the DFAs of mode m (1-based) before any search.
never_advanced(m) == [j \in DOMAIN scanner_modes[m].dfas |-> MatchingStateNew]

remaining(inp, k) == SubSeq(inp, k + 1, Len(inp))

moved(result, by) ==
    IF result = None THEN None
    ELSE Some([result[1] EXCEPT !.start = @ + by, !.end = @ + by])

find_from_is_a_function ==
    \A m \in DOMAIN scanner_modes : \A k \in 0..Len(input) :
        /\ find_from(scanner_modes, m - 1, dfas[m], input, k)
              = find_from(scanner_modes, m - 1, never_advanced(m), input, k)
        /\ find_from(scanner_modes, m - 1, dfas[m], input, k).result
              = moved(find_from(scanner_modes, m - 1, never_advanced(m),
                                remaining(input, k), 0).result,
                      Off(input, k))

C23_FindFromIsAFunction ==
    /\ []find_from_is_a_function
    /\ [][\A m \in DOMAIN dfas : m # current_mode + 1 => dfas'[m] = dfas[m]]_vars

\* The scanner has switched its mode after a match and has then found a
\* match in the mode it switched to, from a cursor behind byte offset 0,
\* with DFAs of that mode left advanced by an earlier search.
C23_Witness ==
    /\ Matched
    /\ Len(yielded) >= 2
    /\ yielded[Len(yielded) - 1].mode # returned.mode
    /\ returned.at > 0
    /\ \E m \in DOMAIN dfas : \E j \in DOMAIN dfas[m] :
          m # returned.mode + 1 /\ dfas[m][j] # MatchingStateNew

(***************************************************************************)
(* MatchingState taken alone: the three transition functions and          *)
(* Dfa::advance of the runtime Dfa that owns the matching state, called    *)
(* with the byte offsets and characters of a char_indices iteration, and   *)
(* MatchingState::new between searches.  stepped holds the call, its       *)
(* arguments and the state before it; stepped.next is the least offset the *)
(* iteration can give next, stepped.dfa the index of the owning Dfa.       *)
(***************************************************************************)
\* Largest byte offset of a character handed to the matching state.
MaxPos == 4

\* A call of op at offset i with character c has left the state ms.
MatchingStateStepped(op, i, c, ms) ==
    /\ matching_state' = ms
    /\ stepped' = [op |-> op, i |-> i, c |-> c, before |-> matching_state,
                   next |-> i + len_utf8(c), dfa |-> stepped.dfa]
    /\ UNCHANGED <<scanner_vars, builder_vars, minimize_vars, compile_vars>>

NoTransition ==
    \E i \in stepped.next..MaxPos, c \in Chars :
        MatchingStateStepped("no_transition", i, c, no_transition(matching_state))

TransitionToNonAccepting ==
    \E i \in stepped.next..MaxPos, c \in Chars :
        MatchingStateStepped("transition_to_non_accepting", i, c,
                             transition_to_non_accepting(matching_state, i))

TransitionToAccepting ==
    \E i \in stepped.next..MaxPos, c \in Chars :
        MatchingStateStepped("transition_to_accepting", i, c,
                             transition_to_accepting(matching_state, i, c))

\* Dfa::advance of the Dfa that owns the matching state.
Advance ==
    \E i \in stepped.next..MaxPos, c \in Chars :
        MatchingStateStepped("advance", i, c,
                             advance(DFAS[stepped.dfa + 1], matching_state, i, c))

\* MatchingState::new: the state is reset before the next search.
MatchingStateReset ==
    /\ stepped.op # "new"
    /\ matching_state' = MatchingStateNew
    /\ stepped' = [stepped EXCEPT !.op = "new", !.before = matching_state]
    /\ UNCHANGED <<scanner_vars, builder_vars, minimize_vars, compile_vars>>

MatchingInit ==
    /\ matching_state = MatchingStateNew
    /\ \E d \in DOMAIN DFAS :
          stepped = [op |-> "new", i |-> 0, c |-> "a", before |-> MatchingStateNew,
                     next |-> 0, dfa |-> d - 1]
    /\ scanner_modes = << >>
    /\ current_mode = 0
    /\ dfas = << >>
    /\ input = << >>
    /\ char_indices = 0
    /\ returned = [op |-> "new"]
    /\ yielded = << >>
    /\ builder = ScannerBuilderNew
    /\ calls = << >>
    /\ MinimizeAside
    /\ CompileAside

MatchingNext ==
    \/ NoTransition
    \/ TransitionToNonAccepting
    \/ TransitionToAccepting
    \/ Advance
    \/ MatchingStateReset

SpecMatching == MatchingInit /\ [][MatchingNext]_vars

(***************************************************************************)
(* C20  The four-state table.  After each of the three calls the state is  *)
(* the one the table gives for the state before the call: from None, an    *)
(* accepting transition gives Accepting with start = i, end = i + len(c),  *)
(* a non-accepting one gives Start with start = i, no transition leaves    *)
(* None; from Start, accepting gives Accepting with end = i + len(c) and   *)
(* the start kept, non-accepting leaves Start, no transition gives None    *)
(* with start and end cleared; from Accepting, accepting leaves Accepting  *)
(* with end = i + len(c), non-accepting leaves Accepting with start and    *)
(* end kept, no transition gives Longest with start and end kept.          *)
(***************************************************************************)
C20_FourStateTable ==
    LET b == stepped.before
        a == matching_state
        i == stepped.i
        end == stepped.i + len_utf8(stepped.c)
        kept == /\ a.start_position = b.start_position
                /\ a.end_position = b.end_position
    IN  /\ stepped.op = "transition_to_accepting" =>
            /\ b.state = "None" =>
                  /\ a.state = "Accepting"
                  /\ a.start_position = Some(i)
                  /\ a.end_position = Some(end)
            /\ b.state = "Start" =>
                  /\ a.state = "Accepting"
                  /\ a.start_position = b.start_position
                  /\ a.end_position = Some(end)
            /\ b.state = "Accepting" =>
                  /\ a.state = "Accepting"
                  /\ a.start_position = b.start_position
                  /\ a.end_position = Some(end)
        /\ stepped.op = "transition_to_non_accepting" =>
            /\ b.state = "None" =>
                  /\ a.state = "Start"
                  /\ a.start_position = Some(i)
                  /\ a.end_position = None
            /\ b.state = "Start" => a.state = "Start" /\ kept
            /\ b.state = "Accepting" => a.state = "Accepting" /\ kept
        /\ stepped.op = "no_transition" =>
            /\ b.state = "None" => a.state = "None" /\ kept
            /\ b.state = "Start" =>
                  /\ a.state = "None"
                  /\ a.start_position = None
                  /\ a.end_position = None
            /\ b.state = "Accepting" => a.state = "Longest" /\ kept

\* A match recorded from offset 0 to offset 4 has become the longest match
\* when no transition was found.
C20_Witness ==
    /\ stepped.op = "no_transition"
    /\ stepped.before.state = "Accepting"
    /\ matching_state.state = "Longest"
    /\ matching_state.start_position = Some(0)
    /\ matching_state.end_position = Some(4)

(***************************************************************************)
(* C21  Longest is absorbing.  Once the matching state of a DFA is         *)
(* Longest, every call of no_transition, transition_to_non_accepting,      *)
(* transition_to_accepting or Dfa::advance leaves its state value, its     *)
(* recorded start and end and its current DFA state as they were; only     *)
(* the reset before the next search changes them.                          *)
(***************************************************************************)
C21_LongestIsAbsorbing ==
    [][(matching_state.state = "Longest" /\ stepped'.op # "new")
            => matching_state' = matching_state]_vars

\* A DFA that was advanced to a state other than its start state and holds
\* its longest match has been advanced once more, with a character, and
\* has been left as it was.
C21_Witness ==
    /\ stepped.op = "advance"
    /\ stepped.before.state = "Longest"
    /\ stepped.before.current_state # 0
    /\ find_transition(DFAS[stepped.dfa + 1], stepped.before, stepped.c) # None
    /\ matching_state = stepped.before

(***************************************************************************)
(* Compile time.  A pattern is a string; parse_regex_syntax gives its AST  *)
(* (regex_syntax::ast::Ast without the spans) or a syntax error.  An AST   *)
(* is a record with its kind; the ASTs that stand for one character        *)
(* (Literal, Dot, the classes) carry their text in c.                      *)
(***************************************************************************)
Literal(c) == [kind |-> "Literal", c |-> c]

Dot == [kind |-> "Dot", c |-> "."]

ClassPerl(c) == [kind |-> "ClassPerl", c |-> c]

ClassUnicode(c) == [kind |-> "ClassUnicode", c |-> c]

Assertion(c) == [kind |-> "Assertion", c |-> c]

Concat(asts) == [kind |-> "Concat", asts |-> asts]

Alternation(asts) == [kind |-> "Alternation", asts |-> asts]

Group(ast) == [kind |-> "Group", ast |-> ast]

Repetition(op, ast) == [kind |-> "Repetition", op |-> op, ast |-> ast]

ZeroOrOne == [kind |-> "ZeroOrOne"]

ZeroOrMore == [kind |-> "ZeroOrMore"]

OneOrMore == [kind |-> "OneOrMore"]

Exactly(n) == [kind |-> "Exactly", least |-> n, most |-> n]

AtLeast(n) == [kind |-> "AtLeast", least |-> n, most |-> n]

Bounded(least, most) == [kind |-> "Bounded", least |-> least, most |-> most]

\* The errors of the compile time (ScanGenErrorKind).
RegexSyntaxError == [error |-> "RegexSyntaxError"]

UnsupportedFeature == [error |-> "UnsupportedFeature"]

IsErr(x) == "error" \in DOMAIN x

\* The patterns handed to the compile time.
Patterns ==
    {"a", "b", "ab", "a*b|c", "(ab)*", "(a|b)*abb", "in", "int", "a|bc|dc",
     "a{1,2}b{2,}c{3}", "b|a{2,3}", "a?b+", "\\d+", ".", "\\pX", "a\\b", "a("}

\* parse_regex_syntax: the AST regex_syntax gives for the pattern.
parse_regex_syntax(pattern) ==
    CASE pattern = "a" -> Literal("a")
      [] pattern = "b" -> Literal("b")
      [] pattern = "ab" -> Concat(<<Literal("a"), Literal("b")>>)
      [] pattern = "a*b|c" ->
            Alternation(<<Concat(<<Repetition(ZeroOrMore, Literal("a")), Literal("b")>>),
                          Literal("c")>>)
      [] pattern = "(ab)*" ->
            Repetition(ZeroOrMore, Group(Concat(<<Literal("a"), Literal("b")>>)))
      [] pattern = "(a|b)*abb" ->
            Concat(<<Repetition(ZeroOrMore,
                                Group(Alternation(<<Literal("a"), Literal("b")>>))),
                     Literal("a"), Literal("b"), Literal("b")>>)
      [] pattern = "in" -> Concat(<<Literal("i"), Literal("n")>>)
      [] pattern = "int" -> Concat(<<Literal("i"), Literal("n"), Literal("t")>>)
      [] pattern = "a|bc|dc" ->
            Alternation(<<Literal("a"), Concat(<<Literal("b"), Literal("c")>>),
                          Concat(<<Literal("d"), Literal("c")>>)>>)
      [] pattern = "a{1,2}b{2,}c{3}" ->
            Concat(<<Repetition(Bounded(1, 2), Literal("a")),
                     Repetition(AtLeast(2), Literal("b")),
                     Repetition(Exactly(3), Literal("c"))>>)
      [] pattern = "b|a{2,3}" ->
            Alternation(<<Literal("b"), Repetition(Bounded(2, 3), Literal("a"))>>)
      [] pattern = "a?b+" ->
            Concat(<<Repetition(ZeroOrOne, Literal("a")),
                     Repetition(OneOrMore, Literal("b"))>>)
      [] pattern = "\\d+" -> Repetition(OneOrMore, ClassPerl("\\d"))
      [] pattern = "." -> Dot
      [] pattern = "\\pX" -> ClassUnicode("\\pX")
      [] pattern = "a\\b" -> Concat(<<Literal("a"), Assertion("\\b")>>)
      [] OTHER -> RegexSyntaxError

(***************************************************************************)
(* Nfa: the states in the order they are held in (states[k] of the code is *)
(* element k + 1), each with its id, its epsilon transitions (target       *)
(* states) and its transitions (chars, target state).                      *)
(***************************************************************************)
NfaStateNew == [id |-> 0, epsilon_transitions |-> << >>, transitions |-> << >>]

NfaNew == [states |-> <<NfaStateNew>>, start_state |-> 0, end_state |-> 0]

is_empty(nfa) ==
    /\ nfa.start_state = 0
    /\ nfa.end_state = 0
    /\ Len(nfa.states) = 1
    /\ nfa.states[1].transitions = << >>
    /\ nfa.states[1].epsilon_transitions = << >>

add_transition(nfa, from, chars, target_state) ==
    [nfa EXCEPT !.states[from + 1].transitions = Append(@, <<chars, target_state>>)]

add_epsilon_transition(nfa, from, target_state) ==
    [nfa EXCEPT !.states[from + 1].epsilon_transitions = Append(@, target_state)]

\* Nfa::new_state: the new state has the id Len(nfa.states).
new_state(nfa) ==
    [nfa EXCEPT !.states = Append(@, [NfaStateNew EXCEPT !.id = Len(nfa.states)])]

\* NfaState::offset without the targets of the epsilon transitions.
offset_without_epsilon(state, by) ==
    [id |-> state.id + by,
     epsilon_transitions |-> state.epsilon_transitions,
     transitions |->
        [k \in DOMAIN state.transitions |->
            <<state.transitions[k][1], state.transitions[k][2] + by>>]]

\* NfaState::offset
offset(state, by) ==
    [id |-> state.id + by,
     epsilon_transitions |->
        [k \in DOMAIN state.epsilon_transitions |-> state.epsilon_transitions[k] + by],
     transitions |->
        [k \in DOMAIN state.transitions |->
            <<state.transitions[k][1], state.transitions[k][2] + by>>]]

shift_ids(nfa, by) ==
    [states |-> [k \in DOMAIN nfa.states |-> offset(nfa.states[k], by)],
     start_state |-> nfa.start_state + by,
     end_state |-> nfa.end_state + by]

\* Nfa::append
nfa_append(self, nfa) == [self EXCEPT !.states = @ \o nfa.states]

\* Nfa::concat once the ids of nfa are shifted.
concat_shifted(self, nfa) ==
    [add_epsilon_transition(nfa_append(self, nfa), self.end_state, nfa.start_state)
        EXCEPT !.end_state = nfa.end_state]

concat(self, nfa) ==
    IF is_empty(self)
    THEN [self EXCEPT !.start_state = nfa.start_state, !.end_state = nfa.end_state,
                      !.states = nfa.states]
    ELSE concat_shifted(self, shift_ids(nfa, Len(self.states)))

\* Nfa::alternation once the ids of nfa are shifted and its states appended:
\* the new start state is start_state, the new end state start_state + 1.
alternation_appended(self, nfa, appended, start_state) ==
    [add_epsilon_transition(
        add_epsilon_transition(
            add_epsilon_transition(
                add_epsilon_transition(new_state(new_state(appended)),
                                       start_state, self.start_state),
                start_state, nfa.start_state),
            self.end_state, start_state + 1),
        nfa.end_state, start_state + 1)
        EXCEPT !.start_state = start_state, !.end_state = start_state + 1]

alternation_shifted(self, nfa) ==
    alternation_appended(self, nfa, nfa_append(self, nfa),
                         Len(self.states) + Len(nfa.states))

alternation(self, nfa) ==
    IF is_empty(self)
    THEN [self EXCEPT !.start_state = nfa.start_state, !.end_state = nfa.end_state,
                      !.states = nfa.states]
    ELSE alternation_shifted(self, shift_ids(nfa, Len(self.states)))

\* Nfa::zero_or_one without the edge from the new start state to the end state.
zero_or_one_without_skip(self) ==
    [add_epsilon_transition(new_state(self), Len(self.states), self.start_state)
        EXCEPT !.start_state = Len(self.states)]

\* Nfa::zero_or_one
zero_or_one(self) ==
    [add_epsilon_transition(
        add_epsilon_transition(new_state(self), Len(self.states), self.start_state),
        Len(self.states), self.end_state)
        EXCEPT !.start_state = Len(self.states)]

one_or_more(self) ==
    [add_epsilon_transition(
        add_epsilon_transition(
            add_epsilon_transition(new_state(new_state(self)),
                                   Len(self.states), self.start_state),
            self.end_state, Len(self.states) + 1),
        self.end_state, self.start_state)
        EXCEPT !.start_state = Len(self.states), !.end_state = Len(self.states) + 1]

zero_or_more(self) ==
    [add_epsilon_transition(
        add_epsilon_transition(
            add_epsilon_transition(
                add_epsilon_transition(new_state(new_state(self)),
                                       Len(self.states), self.start_state),
                Len(self.states), self.end_state),
            self.end_state, Len(self.states) + 1),
        self.end_state, self.start_state)
        EXCEPT !.start_state = Len(self.states), !.end_state = Len(self.states) + 1]

\* for _ in 0..n { nfa.concat(nfa2.clone()) }
RECURSIVE concat_times(_, _, _)
concat_times(nfa, nfa2, n) ==
    IF n <= 0 THEN nfa ELSE concat_times(concat(nfa, nfa2), nfa2, n - 1)

\* TryFrom<Ast> for Nfa, the Repetition arm once the repeated AST is an Nfa.
repetition(op, nfa2) ==
    CASE IsErr(nfa2) -> nfa2
      [] op.kind = "ZeroOrOne" -> zero_or_one(nfa2)
      [] op.kind = "ZeroOrMore" -> zero_or_more(nfa2)
      [] op.kind = "OneOrMore" -> one_or_more(nfa2)
      [] op.kind = "Exactly" -> concat_times(NfaNew, nfa2, op.least)
      [] op.kind = "AtLeast" ->
            concat(concat_times(NfaNew, nfa2, op.least), zero_or_more(nfa2))
      [] op.kind = "Bounded" ->
            concat_times(concat_times(NfaNew, nfa2, op.least), zero_or_one(nfa2),
                         op.most - op.least)

\* The arms for one character: a start state, an end state and a transition.
character(ast) ==
    [states |-> <<[id |-> 0, epsilon_transitions |-> << >>,
                   transitions |-> << <<ast, 1>> >>],
                  [NfaStateNew EXCEPT !.id = 1]>>,
     start_state |-> 0, end_state |-> 1]

\* TryFrom<Ast> for Nfa
RECURSIVE Nfa_try_from(_)
RECURSIVE alternation_from(_, _, _)
RECURSIVE alternation_next(_, _, _, _)
RECURSIVE concat_from(_, _, _)
RECURSIVE concat_next(_, _, _, _)
Nfa_try_from(ast) ==
    CASE ast.kind = "Empty" -> NfaNew
      [] ast.kind \in {"Flags", "Assertion"} -> UnsupportedFeature
      [] ast.kind \in {"Literal", "Dot", "ClassUnicode", "ClassPerl", "ClassBracketed"} ->
            character(ast)
      [] ast.kind = "Repetition" -> repetition(ast.op, Nfa_try_from(ast.ast))
      [] ast.kind = "Group" -> Nfa_try_from(ast.ast)
      [] ast.kind = "Alternation" -> alternation_from(NfaNew, ast.asts, 1)
      [] ast.kind = "Concat" -> concat_from(NfaNew, ast.asts, 1)

alternation_from(nfa, asts, k) ==
    IF IsErr(nfa) \/ k > Len(asts) THEN nfa
    ELSE alternation_from(alternation_next(nfa, asts, k, Nfa_try_from(asts[k])),
                          asts, k + 1)

alternation_next(nfa, asts, k, nfa2) ==
    IF IsErr(nfa2) THEN nfa2 ELSE alternation(nfa, nfa2)

concat_from(nfa, asts, k) ==
    IF IsErr(nfa) \/ k > Len(asts) THEN nfa
    ELSE concat_from(concat_next(nfa, asts, k, Nfa_try_from(asts[k])), asts, k + 1)

concat_next(nfa, asts, k, nfa2) ==
    IF IsErr(nfa2) THEN nfa2 ELSE concat(nfa, nfa2)

(***************************************************************************)
(* MultiPatternNfa.  A BTreeMap is a function on its keys; the transitions *)
(* of a MultiNfaState are (character class id, target state).              *)
(***************************************************************************)
\* BTreeMap::insert
Insert(map, key, value) == (key :> value) @@ map

MultiPatternNfaNew ==
    [nfa |-> <<NfaStateNew>>, pattern |-> << >>, accepting_states |-> << >>,
     char_classes |-> << >>]

\* PartialEq for ComparableAst
ComparableAstEq(x, y) ==
    /\ x.kind = y.kind
    /\ x.kind \in {"Empty", "Dot", "Literal", "ClassUnicode", "ClassPerl", "ClassBracketed"}
    /\ x.c = y.c

\* Iterator::position: the 0-based index of the first element equal to x
\* (ComparableAst), Len(seq) if there is none.
RECURSIVE position_from(_, _, _)
position_from(seq, x, k) ==
    IF k > Len(seq) THEN Len(seq)
    ELSE IF ComparableAstEq(seq[k], x) THEN k - 1
    ELSE position_from(seq, x, k + 1)

\* NfaWithCharClasses::append, the transitions of one state from the k-th on:
\* the character classes and the transitions with the class ids.
RECURSIVE append_transitions(_, _, _, _)
\* Mutant: a character class is pushed for every transition, found or not.
append_transitions_pushed(char_classes, transitions, k, new_transitions) ==
    IF k > Len(transitions)
    THEN [char_classes |-> char_classes, transitions |-> new_transitions]
    ELSE append_transitions(
            Append(char_classes, transitions[k][1]),
            transitions, k + 1,
            Append(new_transitions, <<Len(char_classes), transitions[k][2]>>))

append_transitions(char_classes, transitions, k, new_transitions) ==
    IF k > Len(transitions)
    THEN [char_classes |-> char_classes, transitions |-> new_transitions]
    ELSE append_transitions(
            IF position_from(char_classes, transitions[k][1], 1) < Len(char_classes)
            THEN char_classes
            ELSE Append(char_classes, transitions[k][1]),
            transitions, k + 1,
            Append(new_transitions,
                   <<position_from(char_classes, transitions[k][1], 1),
                     transitions[k][2]>>))

\* NfaWithCharClasses::append, the body of the loop over the states of nfa
\* for its k-th state, once the transitions of the state are converted: the
\* state to push and the character classes.
append_state(nfa, k, appended) ==
    [states |-> <<[id |-> nfa.states[k].id,
                   epsilon_transitions |-> nfa.states[k].epsilon_transitions,
                   transitions |-> appended.transitions]>>,
     char_classes |-> appended.char_classes]

\* The states pushed for first..k followed by those pushed for k + 1..last.
append_next(pushed, next) ==
    [states |-> pushed.states \o next.states, char_classes |-> next.char_classes]

\* NfaWithCharClasses::append, the loop over the states first..last of nfa:
\* the states to push and the character classes after it.
RECURSIVE append_from(_, _, _, _)
RECURSIVE append_half(_, _, _, _)
append_from(char_classes, nfa, first, last) ==
    IF first > last THEN [states |-> << >>, char_classes |-> char_classes]
    ELSE IF first = last
    THEN append_state(nfa, first,
                      append_transitions(char_classes, nfa.states[first].transitions,
                                         1, << >>))
    ELSE append_half(append_from(char_classes, nfa, first, (first + last) \div 2),
                     nfa, (first + last) \div 2 + 1, last)

append_half(pushed, nfa, first, last) ==
    append_next(pushed, append_from(pushed.char_classes, nfa, first, last))

append(states, char_classes, nfa) ==
    append_next([states |-> states, char_classes |-> char_classes],
                append_from(char_classes, nfa, 1, Len(nfa.states)))

\* The first position of pattern in patterns, 0-based.
pattern_position(patterns, pattern) ==
    (CHOOSE k \in DOMAIN patterns :
        patterns[k] = pattern /\ \A j \in 1..(k - 1) : patterns[j] # pattern) - 1

\* Mutant: the start state of the pattern is recorded as its accepting state.
add_pattern_appended_start(self, pattern, nfa, appended) ==
    [self |-> [nfa |-> [appended.states EXCEPT ![1].epsilon_transitions =
                            Append(@, nfa.start_state)],
               pattern |-> Append(self.pattern, pattern),
               accepting_states |->
                   Insert(self.accepting_states, nfa.start_state, Len(self.pattern)),
               char_classes |-> appended.char_classes],
     result |-> [ok |-> Len(self.pattern)]]

\* MultiPatternNfa::add_pattern once the pattern is an Nfa with shifted ids
\* and its states are appended to the own ones.
add_pattern_appended(self, pattern, nfa, appended) ==
    [self |-> [nfa |-> [appended.states EXCEPT ![1].epsilon_transitions =
                            Append(@, nfa.start_state)],
               pattern |-> Append(self.pattern, pattern),
               accepting_states |->
                   Insert(self.accepting_states, nfa.end_state, Len(self.pattern)),
               char_classes |-> appended.char_classes],
     result |-> [ok |-> Len(self.pattern)]]

add_pattern_shifted(self, pattern, nfa) ==
    add_pattern_appended(self, pattern, nfa, append(self.nfa, self.char_classes, nfa))

\* MultiPatternNfa::add_pattern once the pattern is converted to an Nfa.
add_pattern_converted_to_nfa(self, pattern, nfa) ==
    IF IsErr(nfa) THEN [self |-> self, result |-> nfa]
    ELSE add_pattern_shifted(self, pattern, shift_ids(nfa, Len(self.nfa)))

\* MultiPatternNfa::add_pattern once the pattern is parsed.
add_pattern_parsed(self, pattern, ast) ==
    IF IsErr(ast) THEN [self |-> self, result |-> ast]
    ELSE add_pattern_converted_to_nfa(self, pattern, Nfa_try_from(ast))

\* Mutant: a pattern that was already added is added once more.
add_pattern_again(self, pattern) ==
    add_pattern_parsed(self, pattern, parse_regex_syntax(pattern))

\* MultiPatternNfa::add_pattern: the MultiPatternNfa and the Result after it.
add_pattern(self, pattern) ==
    IF \E k \in DOMAIN self.pattern : self.pattern[k] = pattern
    THEN [self |-> self, result |-> [ok |-> pattern_position(self.pattern, pattern)]]
    ELSE add_pattern_parsed(self, pattern, parse_regex_syntax(pattern))

\* Mutant: the epsilon transitions of the states handed in are followed,
\* those of the states they lead to are not.
epsilon_closure_set_one_step(states, closure) ==
    closure \cup UNION {Range(states[s + 1].epsilon_transitions) : s \in closure}

\* NfaWithCharClasses::epsilon_closure_set: the states, sorted and without
\* duplicates, as a set.
RECURSIVE epsilon_closure_set(_, _)
epsilon_closure_set(states, closure) ==
    IF \A s \in closure : Range(states[s + 1].epsilon_transitions) \subseteq closure
    THEN closure
    ELSE epsilon_closure_set(states,
            closure \cup UNION {Range(states[s + 1].epsilon_transitions) : s \in closure})

\* NfaWithCharClasses::epsilon_closure
epsilon_closure(states, state) == epsilon_closure_set(states, {state})

\* NfaWithCharClasses::move_set
move_set(states, from, char_class) ==
    UNION {{t[2] : t \in {u \in Range(states[s + 1].transitions) : u[1] = char_class}} :
           s \in from}

(***************************************************************************)
(* Dfa: the subset construction and the minimization.  A DfaState is the   *)
(* set of its NFA states and its marked flag; state k is element k + 1 of  *)
(* states.  transitions maps a state to the map of its transitions, from   *)
(* character class id to target state.                                     *)
(***************************************************************************)
Min(S) == CHOOSE x \in S : \A y \in S : x <= y

\* Mutant: the state added last is not looked at when the state is searched.
add_state_if_new_not_last(dfa, nfa_states, accepting_states) ==
    IF \E k \in 1..(Len(dfa.states) - 1) : dfa.states[k].nfa_states = nfa_states
    THEN [dfa |-> dfa,
          state_id |-> Min({k \in 1..(Len(dfa.states) - 1) :
                               dfa.states[k].nfa_states = nfa_states}) - 1]
    ELSE [dfa |->
            [dfa EXCEPT
                !.states = Append(@, [nfa_states |-> nfa_states, marked |-> FALSE]),
                !.accepting_states =
                    IF nfa_states \cap DOMAIN accepting_states = {} THEN @
                    ELSE Insert(@, Len(dfa.states),
                                accepting_states[Min(nfa_states
                                                     \cap DOMAIN accepting_states)])],
          state_id |-> Len(dfa.states)]

\* Dfa::add_state_if_new: the Dfa after it and the state id it returns.
add_state_if_new(dfa, nfa_states, accepting_states) ==
    IF \E k \in DOMAIN dfa.states : dfa.states[k].nfa_states = nfa_states
    THEN [dfa |-> dfa,
          state_id |-> Min({k \in DOMAIN dfa.states :
                               dfa.states[k].nfa_states = nfa_states}) - 1]
    ELSE [dfa |->
            [dfa EXCEPT
                !.states = Append(@, [nfa_states |-> nfa_states, marked |-> FALSE]),
                !.accepting_states =
                    IF nfa_states \cap DOMAIN accepting_states = {} THEN @
                    ELSE Insert(@, Len(dfa.states),
                                accepting_states[Min(nfa_states
                                                     \cap DOMAIN accepting_states)])],
          state_id |-> Len(dfa.states)]

\* dfa.transitions.entry(state_id).or_default().insert(char_class, target_state)
insert_transition(transitions, state_id, char_class, target_state) ==
    Insert(transitions, state_id,
           Insert(IF state_id \in DOMAIN transitions THEN transitions[state_id]
                  ELSE << >>,
                  char_class, target_state))

\* Dfa::try_from_nfa, the body of the loop over the character classes once
\* the target states are known: the Dfa and the work list after it.
for_target_state(loop, state_id, char_class, added) ==
    [dfa |-> [added.dfa EXCEPT
                !.transitions = insert_transition(@, state_id, char_class,
                                                  added.state_id),
                !.states[added.state_id + 1].marked = TRUE],
     work_list |-> IF added.dfa.states[added.state_id + 1].marked THEN loop.work_list
                   ELSE Append(loop.work_list, added.state_id)]

for_target_states(nfa, loop, state_id, char_class, target_states) ==
    IF target_states = {} THEN loop
    ELSE for_target_state(loop, state_id, char_class,
                          add_state_if_new(loop.dfa, target_states, nfa.accepting_states))

\* Dfa::try_from_nfa, the loop over the character classes first..last of
\* dfa.char_classes for the state taken from the work list, whose NFA states
\* are nfa_states.
RECURSIVE for_char_class(_, _, _, _, _, _)
for_char_class(nfa, loop, state_id, nfa_states, first, last) ==
    IF first > last \/ first >= Len(loop.dfa.char_classes) THEN loop
    ELSE IF first = last
    THEN for_target_states(nfa, loop, state_id, first,
            epsilon_closure_set(nfa.nfa, move_set(nfa.nfa, nfa_states, first)))
    ELSE for_char_class(nfa,
            for_char_class(nfa, loop, state_id, nfa_states, first, (first + last) \div 2),
            state_id, nfa_states, (first + last) \div 2 + 1, last)

\* Dfa::try_from_nfa, one pass of the loop over the work list; nothing is
\* left to do when the work list is empty.
work_pass(nfa, loop) ==
    IF loop.work_list = << >> THEN loop
    ELSE for_char_class(nfa,
            [loop EXCEPT !.work_list = SubSeq(@, 1, Len(@) - 1)],
            loop.work_list[Len(loop.work_list)],
            loop.dfa.states[loop.work_list[Len(loop.work_list)] + 1].nfa_states,
            0, Len(loop.dfa.char_classes) - 1)

\* n passes of the loop over the work list.
RECURSIVE work_passes(_, _, _)
work_passes(nfa, loop, n) ==
    IF loop.work_list = << >> THEN loop
    ELSE IF n <= 1 THEN work_pass(nfa, loop)
    ELSE work_passes(nfa, work_passes(nfa, loop, n \div 2), n - n \div 2)

\* Dfa::try_from_nfa, the loop over the work list until it is empty, n
\* passes and then twice as many at a time.
RECURSIVE work(_, _, _)
work(nfa, loop, n) ==
    IF loop.work_list = << >> THEN loop.dfa
    ELSE work(nfa, work_passes(nfa, loop, n), 2 * n)

\* The Dfa with its initial state, marked.
initial_state(added) == [added.dfa EXCEPT !.states[added.state_id + 1].marked = TRUE]

\* debug_assert! of add_state_if_new: no DFA state holds two accepting NFA
\* states.
one_pattern_matches(dfa, accepting_states) ==
    \A k \in DOMAIN dfa.states :
        Cardinality(dfa.states[k].nfa_states \cap DOMAIN accepting_states) <= 1

try_from_nfa(nfa) ==
    work(nfa,
         [dfa |-> initial_state(add_state_if_new(
                    [states |-> << >>, patterns |-> nfa.pattern,
                     accepting_states |-> << >>,
                     char_classes |-> nfa.char_classes, transitions |-> << >>],
                    epsilon_closure(nfa.nfa, 0), nfa.accepting_states)),
          work_list |-> <<0>>],
         4)

\* Dfa::pattern_id
pattern_id(dfa, state_id) ==
    IF state_id \in DOMAIN dfa.accepting_states
    THEN Some(dfa.accepting_states[state_id]) ELSE None

\* The key of calculate_initial_partition's chunk_by.
chunk_key(dfa, state_id) ==
    IF state_id \in DOMAIN dfa.accepting_states
    THEN dfa.accepting_states[state_id]
    ELSE Cardinality(DOMAIN dfa.accepting_states)

\* Itertools::chunk_by over the states: consecutive states with the same
\* key make one group.
RECURSIVE chunk_by(_, _, _)
chunk_by(dfa, state_id, partition) ==
    IF state_id >= Len(dfa.states) THEN partition
    ELSE IF state_id > 0 /\ chunk_key(dfa, state_id - 1) = chunk_key(dfa, state_id)
    THEN chunk_by(dfa, state_id + 1,
                  [partition EXCEPT ![Len(partition)] = @ \cup {state_id}])
    ELSE chunk_by(dfa, state_id + 1, Append(partition, {state_id}))

calculate_initial_partition(dfa) == chunk_by(dfa, 0, << >>)

\* Dfa::find_group: the 0-based index of the group of a state.
find_group(state_id, partition) ==
    Min({g \in DOMAIN partition : state_id \in partition[g]}) - 1

\* Dfa::build_transitions_to_partition_group: the transitions of a state
\* in the order of the character class ids, from the class id char_class on.
RECURSIVE transitions_to_partition_group(_, _, _, _)
transitions_to_partition_group(dfa, transitions_of_state, partition, char_class) ==
    IF char_class >= Len(dfa.char_classes) THEN << >>
    ELSE IF char_class \in DOMAIN transitions_of_state
    THEN <<<<char_class, find_group(transitions_of_state[char_class], partition)>>>>
         \o transitions_to_partition_group(dfa, transitions_of_state, partition,
                                           char_class + 1)
    ELSE transitions_to_partition_group(dfa, transitions_of_state, partition,
                                        char_class + 1)

build_transitions_to_partition_group(dfa, state_id, partition) ==
    IF state_id \in DOMAIN dfa.transitions
    THEN transitions_to_partition_group(dfa, dfa.transitions[state_id], partition, 0)
    ELSE << >>

\* Ord of TransitionsToPartitionGroups: Vec<(CharacterClass, usize)> compared
\* element by element, a CharacterClass by its id; a prefix is less.
RECURSIVE less_from(_, _, _)
less_from(x, y, k) ==
    IF k > Len(x) THEN k <= Len(y)
    ELSE IF k > Len(y) THEN FALSE
    ELSE IF x[k][1] # y[k][1] THEN x[k][1] < y[k][1]
    ELSE IF x[k][2] # y[k][2] THEN x[k][2] < y[k][2]
    ELSE less_from(x, y, k + 1)

less(x, y) == less_from(x, y, 1)

\* BTreeMap::into_values: the values in the order of the keys.  The value
\* of a key are the states of the group with these transitions; the k-th
\* value is the one of the key that has k - 1 lesser keys.
into_values(dfa, group, partition, keys) ==
    [k \in 1..Cardinality(keys) |->
        {state_id \in group :
            Cardinality({key \in keys :
                less(key, build_transitions_to_partition_group(dfa, state_id,
                                                               partition))})
                = k - 1}]

split_group(dfa, group, partition) ==
    IF Cardinality(group) = 1 THEN <<group>>
    ELSE into_values(dfa, group, partition,
            {build_transitions_to_partition_group(dfa, state_id, partition) :
                state_id \in group})

RECURSIVE new_partition_from(_, _, _)
new_partition_from(dfa, partition, index) ==
    IF index > Len(partition) THEN << >>
    ELSE split_group(dfa, partition[index], partition)
         \o new_partition_from(dfa, partition, index + 1)

\* Mutant: the groups of the new partition are pushed from the second one
\* on, the first one last.
calculate_new_partition_rotated(dfa, partition) ==
    Tail(new_partition_from(dfa, partition, 1))
    \o <<Head(new_partition_from(dfa, partition, 1))>>

calculate_new_partition(dfa, partition) == new_partition_from(dfa, partition, 1)

\* Dfa::add_representive_state for every group: the pattern id of the last
\* accepting state of a group is the one that stays in the map.
representive_accepting_states(dfa, partition) ==
    [g \in {find_group(state_id, partition) : state_id \in DOMAIN dfa.accepting_states}
        |-> dfa.accepting_states[Max(partition[g + 1] \cap DOMAIN dfa.accepting_states)]]

\* Dfa::merge_transitions_of_state
merge_transitions_of_state(state_id, representive_state_id, transitions) ==
    IF representive_state_id \notin DOMAIN transitions THEN transitions
    ELSE IF state_id \notin DOMAIN transitions THEN transitions
    ELSE [s \in DOMAIN transitions \ {state_id} |->
             IF s = representive_state_id
             THEN [c \in DOMAIN transitions[s] \cup DOMAIN transitions[state_id] |->
                      IF c \in DOMAIN transitions[state_id]
                      THEN transitions[state_id][c] ELSE transitions[s][c]]
             ELSE transitions[s]]

\* Dfa::merge_transitions: the states of a group after the first one, in
\* their order.
RECURSIVE merge_group(_, _, _)
merge_group(group, representive_state_id, transitions) ==
    IF group = {} THEN transitions
    ELSE merge_group(group \ {Min(group)}, representive_state_id,
                     merge_transitions_of_state(Min(group), representive_state_id,
                                                transitions))

RECURSIVE merge_transitions(_, _, _)
merge_transitions(partition, index, transitions) ==
    IF index > Len(partition) THEN transitions
    ELSE merge_transitions(partition, index + 1,
            IF Cardinality(partition[index]) = 1 THEN transitions
            ELSE merge_group(partition[index] \ {Min(partition[index])},
                             Min(partition[index]), transitions))

\* Dfa::renumber_states_in_transitions and the collect into a BTreeMap: of
\* the entries with one key the last one stays.
renumber_states_in_transitions(partition, transitions) ==
    [g \in {find_group(s, partition) : s \in DOMAIN transitions} |->
        [c \in DOMAIN transitions[Max(partition[g + 1] \cap DOMAIN transitions)] |->
            find_group(transitions[Max(partition[g + 1] \cap DOMAIN transitions)][c],
                       partition)]]

update_transitions(transitions, partition) ==
    renumber_states_in_transitions(partition,
                                   merge_transitions(partition, 1, transitions))

create_from_partition(dfa, partition) ==
    [states |-> [g \in DOMAIN partition |-> [nfa_states |-> {}, marked |-> FALSE]],
     patterns |-> dfa.patterns,
     accepting_states |-> representive_accepting_states(dfa, partition),
     char_classes |-> dfa.char_classes,
     transitions |-> update_transitions(dfa.transitions, partition)]

\* Dfa::minimize: the loop, until the partition does not change.
RECURSIVE refine(_, _, _)
refine(dfa, partition_old, partition_new) ==
    IF partition_new = partition_old THEN partition_new
    ELSE refine(dfa, partition_new, calculate_new_partition(dfa, partition_new))

minimize_from(dfa, partition_old) ==
    create_from_partition(dfa,
        refine(dfa, partition_old, calculate_new_partition(dfa, partition_old)))

minimize(dfa) == minimize_from(dfa, calculate_initial_partition(dfa))

(***************************************************************************)
(* MatchFunction, CompiledDfa, MultiPatternDfa and generate_code.  A match *)
(* function is the AST it was made from.  The output sink is the sequence  *)
(* of the pieces written to it.                                            *)
(***************************************************************************)
\* The one-letter Unicode classes a match function exists for.
OneLetter == {"\\pL", "\\pN", "\\pZ", "\\pP", "\\pC"}

\* Ok(())
Unit == [ok |-> "()"]

\* TryFrom<Ast> for MatchFunction
MatchFunction_try_from(ast) ==
    CASE ast.kind \in {"Empty", "Dot", "Literal", "ClassPerl", "ClassBracketed"} ->
            [ok |-> ast]
      [] ast.kind = "ClassUnicode" ->
            IF ast.c \in OneLetter THEN [ok |-> ast] ELSE UnsupportedFeature
      [] OTHER -> UnsupportedFeature

written(w, v) == [w |-> w, v |-> v]

\* MatchFunction::generate_code: what is written and the Result.
MatchFunction_generate_code(ast, match_function_index, out) ==
    CASE ast.kind \in {"Empty", "Dot", "Literal", "ClassPerl", "ClassBracketed"} ->
            [output |-> out \o <<written("/* ast */", ast.c),
                                 written("index => {", match_function_index),
                                 written("match", ast.c), written("},", ast.c)>>,
             result |-> Unit]
      [] ast.kind = "ClassUnicode" ->
            IF ast.c \in OneLetter
            THEN [output |-> out \o <<written("/* ast */", ast.c),
                                      written("index => {", match_function_index),
                                      written("match", ast.c), written("},", ast.c)>>,
                  result |-> Unit]
            ELSE [output |-> out \o <<written("/* ast */", ast.c),
                                      written("index => {", match_function_index),
                                      written("indent", ast.c)>>,
                  result |-> UnsupportedFeature]
      [] OTHER ->
            [output |-> out \o <<written("/* ast */", ast.c),
                                 written("index => {", match_function_index)>>,
             result |-> UnsupportedFeature]

CompiledDfaNew ==
    [pattern |-> "", accepting_states |-> << >>, state_ranges |-> << >>,
     transitions |-> << >>]

\* The keys of a BTreeMap over numbers, in their order.
RECURSIVE keys(_)
keys(S) == IF S = {} THEN << >> ELSE <<Min(S)>> \o keys(S \ {Min(S)})

\* CompiledDfa::compile, the try_fold over the transitions of one state from
\* the k-th on: the transitions, the match functions and the Result.
RECURSIVE compile_transitions(_, _, _, _, _, _)
RECURSIVE compile_transition(_, _, _, _, _, _, _)
\* Mutant: the match function of a character class found in match_functions
\* is created once more.
compile_transition_again(dfa, state_transitions, classes, k, acc, match_functions, pos) ==
    IF IsErr(MatchFunction_try_from(dfa.char_classes[classes[k] + 1]))
    THEN [transitions |-> acc, match_functions |-> match_functions,
          result |-> MatchFunction_try_from(dfa.char_classes[classes[k] + 1])]
    ELSE compile_transitions(dfa, state_transitions, classes, k + 1,
                             Append(acc, <<Len(match_functions),
                                           state_transitions[classes[k]]>>),
                             Append(match_functions, dfa.char_classes[classes[k] + 1]))

compile_transitions(dfa, state_transitions, classes, k, acc, match_functions) ==
    IF k > Len(classes)
    THEN [transitions |-> acc, match_functions |-> match_functions,
          result |-> Unit]
    ELSE compile_transition(dfa, state_transitions, classes, k, acc, match_functions,
                            position_from(match_functions,
                                          dfa.char_classes[classes[k] + 1], 1))

compile_transition(dfa, state_transitions, classes, k, acc, match_functions, pos) ==
    IF pos < Len(match_functions)
    THEN compile_transitions(dfa, state_transitions, classes, k + 1,
                             Append(acc, <<pos, state_transitions[classes[k]]>>),
                             match_functions)
    ELSE IF IsErr(MatchFunction_try_from(dfa.char_classes[classes[k] + 1]))
    THEN [transitions |-> acc, match_functions |-> match_functions,
          result |-> MatchFunction_try_from(dfa.char_classes[classes[k] + 1])]
    ELSE compile_transitions(dfa, state_transitions, classes, k + 1,
                             Append(acc, <<Len(match_functions),
                                           state_transitions[classes[k]]>>),
                             Append(match_functions, dfa.char_classes[classes[k] + 1]))

\* CompiledDfa::compile, the loop over the states with transitions from the
\* k-th on.
RECURSIVE compile_states(_, _, _, _, _)
RECURSIVE compile_state(_, _, _, _, _)
\* Mutant: the range of a state is counted from the first transition of the
\* table, not from the first one of the state.
compile_state_from_zero(dfa, states, k, self, compiled_transitions) ==
    IF IsErr(compiled_transitions.result)
    THEN [self |-> self,
          match_functions |-> compiled_transitions.match_functions,
          result |-> compiled_transitions.result]
    ELSE compile_states(dfa, states, k + 1,
            [self EXCEPT !.state_ranges[states[k] + 1] =
                            <<0, Cardinality(DOMAIN dfa.transitions[states[k]])>>,
                         !.transitions = @ \o compiled_transitions.transitions],
            compiled_transitions.match_functions)

compile_states(dfa, states, k, self, match_functions) ==
    IF k > Len(states)
    THEN [self |-> [self EXCEPT !.accepting_states = keys(DOMAIN dfa.accepting_states)],
          match_functions |-> match_functions, result |-> Unit]
    ELSE compile_state(dfa, states, k, self,
            compile_transitions(dfa, dfa.transitions[states[k]],
                                keys(DOMAIN dfa.transitions[states[k]]), 1, << >>,
                                match_functions))

compile_state(dfa, states, k, self, compiled_transitions) ==
    IF IsErr(compiled_transitions.result)
    THEN [self |-> [self EXCEPT !.state_ranges[states[k] + 1] =
                        <<Len(self.transitions),
                          Len(self.transitions)
                          + Cardinality(DOMAIN dfa.transitions[states[k]])>>],
          match_functions |-> compiled_transitions.match_functions,
          result |-> compiled_transitions.result]
    ELSE compile_states(dfa, states, k + 1,
            [self EXCEPT !.state_ranges[states[k] + 1] =
                            <<Len(self.transitions),
                              Len(self.transitions)
                              + Cardinality(DOMAIN dfa.transitions[states[k]])>>,
                         !.transitions = @ \o compiled_transitions.transitions],
            compiled_transitions.match_functions)

\* CompiledDfa::compile: the CompiledDfa, the match functions and the Result.
compile(dfa, match_functions) ==
    compile_states(dfa, keys(DOMAIN dfa.transitions), 1,
                   [pattern |-> dfa.patterns[1], accepting_states |-> << >>,
                    state_ranges |-> [k \in DOMAIN dfa.states |-> <<0, 0>>],
                    transitions |-> << >>],
                   match_functions)

\* CompiledDfa::generate_code
CompiledDfa_generate_code(self, out) == Append(out, written("DfaData", self))

MultiPatternDfaNew == [dfas |-> << >>, match_functions |-> << >>]

\* MultiPatternDfa::add_pattern once the minimized DFA is compiled.
add_pattern_compiled(self, compiled_dfa) ==
    IF IsErr(compiled_dfa.result)
    THEN [self |-> [self EXCEPT !.match_functions = compiled_dfa.match_functions],
          result |-> compiled_dfa.result]
    ELSE [self |-> [dfas |-> Append(self.dfas, compiled_dfa.self),
                    match_functions |-> compiled_dfa.match_functions],
          result |-> Unit]

\* MultiPatternDfa::add_pattern once the DFA is minimized (dfa.minimize()?).
add_pattern_minimized(self, minimized_dfa) ==
    IF IsErr(minimized_dfa) THEN [self |-> self, result |-> minimized_dfa]
    ELSE add_pattern_compiled(self, compile(minimized_dfa, self.match_functions))

\* MultiPatternDfa::add_pattern once the MultiPatternNfa is converted to a
\* Dfa (multi_pattern_nfa.try_into()?).
add_pattern_converted(self, dfa) ==
    IF IsErr(dfa) THEN [self |-> self, result |-> dfa]
    ELSE add_pattern_minimized(self, minimize(dfa))

\* MultiPatternDfa::add_pattern once the pattern is added to a new
\* MultiPatternNfa (multi_pattern_nfa.add_pattern(pattern)?).
add_pattern_to_nfa(self, added) ==
    IF IsErr(added.result) THEN [self |-> self, result |-> added.result]
    ELSE add_pattern_converted(self, try_from_nfa(added.self))

\* MultiPatternDfa::add_pattern
MultiPatternDfa_add_pattern(self, pattern) ==
    IF \E k \in DOMAIN self.dfas : self.dfas[k].pattern = pattern
    THEN [self |-> self, result |-> Unit]
    ELSE add_pattern_to_nfa(self, add_pattern(MultiPatternNfaNew, pattern))

\* MultiPatternDfa::add_patterns from the index-th pattern on (0-based); an
\* unsupported feature is reported with the index of its pattern.
RECURSIVE add_patterns_from(_, _, _)
RECURSIVE add_patterns_added(_, _, _)
add_patterns_from(self, patterns, index) ==
    IF index >= Len(patterns) THEN [self |-> self, result |-> Unit]
    ELSE add_patterns_added(patterns, index,
                            MultiPatternDfa_add_pattern(self, patterns[index + 1]))

add_patterns_added(patterns, index, added) ==
    IF IsErr(added.result)
    THEN [self |-> added.self,
          result |-> IF added.result.error = "UnsupportedFeature"
                     THEN [error |-> "UnsupportedFeature", index |-> index]
                     ELSE added.result]
    ELSE add_patterns_from(added.self, patterns, index + 1)

add_patterns(self, patterns) == add_patterns_from(self, patterns, 0)

\* MultiPatternDfa::generate_code, the DFAS table from the k-th entry on.
RECURSIVE generate_dfas(_, _, _)
generate_dfas(self, k, out) ==
    IF k > Len(self.dfas) THEN out
    ELSE generate_dfas(self, k + 1,
            CompiledDfa_generate_code(self.dfas[k],
                                      Append(out, written("/* index */", k - 1))))

\* MultiPatternDfa::generate_code, the match functions from the k-th on and
\* what follows them.
RECURSIVE generate_match_functions(_, _, _)
RECURSIVE generate_match_function(_, _, _)
generate_match_functions(self, k, out) ==
    IF k > Len(self.match_functions)
    THEN [output |-> out \o <<written("_ => false", k - 1),
                              written("create_scanner", k - 1)>>,
          result |-> Unit]
    ELSE generate_match_function(self, k,
            MatchFunction_generate_code(self.match_functions[k], k - 1, out))

generate_match_function(self, k, generated) ==
    IF IsErr(generated.result) THEN generated
    ELSE generate_match_functions(self, k + 1, generated.output)

\* MultiPatternDfa::generate_code
MultiPatternDfa_generate_code(self, out) ==
    generate_match_functions(self, 1,
        generate_dfas(self, 1, out \o <<written("use", "scangen"),
                                        written("const DFAS", Len(self.dfas))>>)
        \o <<written("];", Len(self.dfas)), written("const MODES", 0),
             written("];", 0), written("fn matches_char_class", 0)>>)

\* generate_code once the patterns are added.
generate_code_added(added, out) ==
    IF IsErr(added.result)
    THEN [self |-> added.self, output |-> out, result |-> added.result]
    ELSE [self |-> added.self,
          output |-> MultiPatternDfa_generate_code(added.self, out).output,
          result |-> MultiPatternDfa_generate_code(added.self, out).result]

\* Mutant: the head of the output is written before the patterns are added.
generate_code_writes_first(patterns, out) ==
    generate_code_added(add_patterns(MultiPatternDfaNew, patterns),
                        Append(out, written("use", "scangen")))

\* generate_code (generator.rs)
generate_code(patterns, out) ==
    generate_code_added(add_patterns(MultiPatternDfaNew, patterns), out)

(***************************************************************************)
(* The compile-time operations as a state machine.  A run either adds      *)
(* patterns to a MultiPatternNfa, converts it to a Dfa and minimizes it,   *)
(* or adds patterns to a MultiPatternDfa, or generates code for a list of  *)
(* patterns.  compiled records the last operation.                         *)
(***************************************************************************)
MaxPatterns == 2
MaxList == 3

\* The patterns of the lists code is generated for.
ListPatterns == {"a", "b", "ab", "a*b|c", "\\d+", "\\pX", "a\\b", "a("}

PatternLists == UNION {[1..n -> ListPatterns] : n \in 0..MaxList}

Compiled(op, pattern, result, before) ==
    [op |-> op, pattern |-> pattern, result |-> result, before |-> before]

NfaAddPatternReturns(pattern, added) ==
    /\ multi_pattern_nfa' = added.self
    /\ compiled' = Compiled("MultiPatternNfa::add_pattern", pattern, added.result,
                            multi_pattern_nfa)
    /\ UNCHANGED <<scanner_vars, builder_vars, matching_vars, minimize_vars,
                   multi_pattern_dfa, output, constructed>>

\* MultiPatternNfa::add_pattern
NfaAddPattern ==
    /\ compiled.op \in {"new", "MultiPatternNfa::add_pattern"}
    /\ \E pattern \in Patterns :
        /\ \/ Len(multi_pattern_nfa.pattern) < MaxPatterns
           \/ \E k \in DOMAIN multi_pattern_nfa.pattern :
                multi_pattern_nfa.pattern[k] = pattern
        /\ NfaAddPatternReturns(pattern, add_pattern(multi_pattern_nfa, pattern))

DfaTryFromReturns(dfa, debug_assertions) ==
    /\ IF debug_assertions /\ ~one_pattern_matches(dfa, multi_pattern_nfa.accepting_states)
       THEN /\ unminimized' = None
            /\ compiled' = Compiled("Dfa::try_from", multi_pattern_nfa.pattern,
                                    [error |-> "panic"], multi_pattern_nfa)
       ELSE /\ unminimized' = Some(dfa)
            /\ compiled' = Compiled("Dfa::try_from", multi_pattern_nfa.pattern,
                                    Unit, multi_pattern_nfa)
    /\ UNCHANGED <<scanner_vars, builder_vars, matching_vars, minimized, minimizing,
                   multi_pattern_nfa, multi_pattern_dfa, output, constructed>>

\* TryFrom<MultiPatternNfa> for Dfa, in a build with debug assertions or
\* without them.
DfaTryFrom ==
    /\ compiled.op = "MultiPatternNfa::add_pattern"
    /\ \E debug_assertions \in BOOLEAN :
        DfaTryFromReturns(try_from_nfa(multi_pattern_nfa), debug_assertions)

\* Dfa::minimize
Minimize ==
    /\ compiled.op = "Dfa::try_from"
    /\ unminimized # None
    /\ minimized' = Some(minimize(unminimized[1]))
    /\ compiled' = Compiled("Dfa::minimize", compiled.pattern, Unit, compiled.before)
    /\ UNCHANGED <<scanner_vars, builder_vars, matching_vars, unminimized, minimizing,
                   multi_pattern_nfa, multi_pattern_dfa, output, constructed>>

DfaAddPatternReturns(pattern, added) ==
    /\ multi_pattern_dfa' = added.self
    /\ compiled' = Compiled("MultiPatternDfa::add_pattern", pattern, added.result,
                            multi_pattern_dfa)
    /\ UNCHANGED <<scanner_vars, builder_vars, matching_vars, minimize_vars,
                   multi_pattern_nfa, output, constructed>>

\* MultiPatternDfa::add_pattern
DfaAddPattern ==
    /\ compiled.op \in {"new", "MultiPatternDfa::add_pattern"}
    /\ \E pattern \in Patterns :
        /\ \/ Len(multi_pattern_dfa.dfas) < MaxPatterns
           \/ \E k \in DOMAIN multi_pattern_dfa.dfas :
                multi_pattern_dfa.dfas[k].pattern = pattern
        /\ DfaAddPatternReturns(pattern,
                                MultiPatternDfa_add_pattern(multi_pattern_dfa, pattern))

GenerateCodeReturns(patterns, generated) ==
    /\ output' = generated.output
    /\ compiled' = Compiled("generate_code", patterns, generated.result,
                            multi_pattern_dfa)
    /\ UNCHANGED <<scanner_vars, builder_vars, matching_vars, minimize_vars,
                   multi_pattern_nfa, multi_pattern_dfa, constructed>>

\* generate_code (generator.rs), with its own new MultiPatternDfa
GenerateCode ==
    /\ compiled.op = "new"
    /\ \E patterns \in PatternLists :
        GenerateCodeReturns(patterns, generate_code(patterns, output))

CompileInit ==
    /\ multi_pattern_nfa = MultiPatternNfaNew
    /\ multi_pattern_dfa = MultiPatternDfaNew
    /\ output = << >>
    /\ compiled = Compiled("new", "", Unit, MultiPatternNfaNew)
    /\ constructed = << >>
    /\ unminimized = None
    /\ minimized = None
    /\ minimizing = None
    /\ scanner_modes = << >>
    /\ current_mode = 0
    /\ dfas = << >>
    /\ input = << >>
    /\ char_indices = 0
    /\ returned = [op |-> "new"]
    /\ yielded = << >>
    /\ builder = ScannerBuilderNew
    /\ calls = << >>
    /\ MatchingAside

CompileNext ==
    \/ NfaAddPattern
    \/ DfaTryFrom
    \/ Minimize
    \/ DfaAddPattern
    \/ GenerateCode

SpecCompile == CompileInit /\ [][CompileNext]_vars

(***************************************************************************)
(* Dfa::minimize pass by pass.  minimizing holds the locals partition_old, *)
(* partition_new and changed of minimize(); one step is the calculation of *)
(* the initial partition, one iteration of the while loop, or the call of  *)
(* create_from_partition that ends minimize().  The Dfa is the one of a    *)
(* list of one or two different patterns that compile.                     *)
(***************************************************************************)
MinimizePatterns ==
    {pattern \in Patterns : ~IsErr(add_pattern(MultiPatternNfaNew, pattern).result)}

MinimizePatternLists ==
    {patterns \in UNION {[1..n -> MinimizePatterns] : n \in 1..MaxPatterns} :
        \A j, k \in DOMAIN patterns : patterns[j] = patterns[k] => j = k}

\* The MultiPatternNfa of the patterns from the k-th on added to nfa.
RECURSIVE add_patterns_to_nfa(_, _, _)
add_patterns_to_nfa(nfa, patterns, k) ==
    IF k > Len(patterns) THEN nfa
    ELSE add_patterns_to_nfa(add_pattern(nfa, patterns[k]).self, patterns, k + 1)

MinimizeInit ==
    /\ \E patterns \in MinimizePatternLists :
          unminimized =
              Some(try_from_nfa(add_patterns_to_nfa(MultiPatternNfaNew, patterns, 1)))
    /\ minimized = None
    /\ minimizing = None
    /\ scanner_modes = << >>
    /\ current_mode = 0
    /\ dfas = << >>
    /\ input = << >>
    /\ char_indices = 0
    /\ returned = [op |-> "new"]
    /\ yielded = << >>
    /\ builder = ScannerBuilderNew
    /\ calls = << >>
    /\ MatchingAside
    /\ CompileAside

\* let mut partition_old = self.calculate_initial_partition(); let mut
\* partition_new = Partition::new(); let mut changed = true;
CalculateInitialPartition ==
    /\ minimizing = None
    /\ minimized = None
    /\ minimizing' = Some([partition_old |-> calculate_initial_partition(unminimized[1]),
                           partition_new |-> << >>,
                           changed |-> TRUE])
    /\ UNCHANGED <<scanner_vars, builder_vars, matching_vars, compile_vars,
                   unminimized, minimized>>

\* The locals after one iteration of the loop that has calculated
\* partition_new.
calculated(partition_old, partition_new) ==
    [partition_old |-> partition_new,
     partition_new |-> partition_new,
     changed |-> partition_new # partition_old]

\* One iteration of `while changed`.
CalculateNewPartition ==
    /\ minimizing # None
    /\ minimizing[1].changed
    /\ minimizing' = Some(calculated(minimizing[1].partition_old,
                                     calculate_new_partition(unminimized[1],
                                         minimizing[1].partition_old)))
    /\ UNCHANGED <<scanner_vars, builder_vars, matching_vars, compile_vars,
                   unminimized, minimized>>

\* self.create_from_partition(&partition_new), after the loop.
CreateFromPartition ==
    /\ minimizing # None
    /\ ~minimizing[1].changed
    /\ minimized = None
    /\ minimized' = Some(create_from_partition(unminimized[1],
                                               minimizing[1].partition_new))
    /\ UNCHANGED <<scanner_vars, builder_vars, matching_vars, compile_vars,
                   unminimized, minimizing>>

MinimizeNext ==
    \/ CalculateInitialPartition
    \/ CalculateNewPartition
    \/ CreateFromPartition

\* minimize() is sequential code: it goes on until it returns.
SpecMinimize == MinimizeInit /\ [][MinimizeNext]_vars /\ WF_vars(MinimizeNext)

(***************************************************************************)
(* What two DFAs accept, and which states of a DFA are equivalent.         *)
(***************************************************************************)
\* The target of the transition of a state on a class id, -1 if it has none.
step(dfa, state, char_class) ==
    IF state \in DOMAIN dfa.transitions
    THEN IF char_class \in DOMAIN dfa.transitions[state]
         THEN dfa.transitions[state][char_class] ELSE -1
    ELSE -1

\* The pattern id a state accepts, -1 if it is not accepting.
label(dfa, state) ==
    IF state \in DOMAIN dfa.accepting_states THEN dfa.accepting_states[state] ELSE -1

class_ids(dfa) == 0..(Len(dfa.char_classes) - 1)

\* The pairs of states the two DFAs are in after the same sequence of class
\* ids, both run from state 0.
RECURSIVE reached_together(_, _, _, _)
reached_next(dfa, other, seen, next) ==
    reached_together(dfa, other, seen \cup next, next)

reached_together(dfa, other, seen, frontier) ==
    IF frontier = {} THEN seen
    ELSE reached_next(dfa, other, seen,
            {<<step(dfa, pair[1], char_class), step(other, pair[2], char_class)>> :
                pair \in frontier, char_class \in class_ids(dfa)} \ seen)

accepts_the_same(dfa, other) ==
    \A pair \in reached_together(dfa, other, {<<0, 0>>}, {<<0, 0>>}) :
        label(dfa, pair[1]) = label(other, pair[2])

\* The pairs of equivalent states: the largest relation within the given one
\* whose pairs have, for every class id, transitions into related states or
\* no transition.
RECURSIVE equivalent_states(_, _)
equivalent_refined(dfa, relation, refined) ==
    IF refined = relation THEN relation ELSE equivalent_states(dfa, refined)

equivalent_states(dfa, relation) ==
    equivalent_refined(dfa, relation,
        {pair \in relation :
            \A char_class \in class_ids(dfa) :
                <<step(dfa, pair[1], char_class), step(dfa, pair[2], char_class)>>
                    \in relation \cup {<<-1, -1>>}})

same_label(dfa) ==
    {pair \in (0..(Len(dfa.states) - 1)) \X (0..(Len(dfa.states) - 1)) :
        label(dfa, pair[1]) = label(dfa, pair[2])}

(***************************************************************************)
(* C15: adding a pattern string that was already added returns the pattern *)
(* id of its first addition and leaves the MultiPatternNfa (patterns,      *)
(* states, accepting map, character classes) unchanged; on a               *)
(* MultiPatternDfa it adds no further compiled DFA.                        *)
(***************************************************************************)
C15_PatternUniqueness ==
    /\ (/\ compiled.op = "MultiPatternNfa::add_pattern"
        /\ \E k \in DOMAIN compiled.before.pattern :
                compiled.before.pattern[k] = compiled.pattern)
       => /\ multi_pattern_nfa = compiled.before
          /\ "ok" \in DOMAIN compiled.result
          /\ compiled.result.ok =
                Min({k \in DOMAIN compiled.before.pattern :
                        compiled.before.pattern[k] = compiled.pattern}) - 1
    /\ (/\ compiled.op = "MultiPatternDfa::add_pattern"
        /\ \E k \in DOMAIN compiled.before.dfas :
                compiled.before.dfas[k].pattern = compiled.pattern)
       => /\ multi_pattern_dfa.dfas = compiled.before.dfas
          /\ compiled.result = Unit

\* The first of two patterns was added once more and its id 0 returned.
C15_Witness ==
    /\ compiled.op = "MultiPatternNfa::add_pattern"
    /\ Len(compiled.before.pattern) = 2
    /\ compiled.pattern = compiled.before.pattern[1]
    /\ compiled.result = [ok |-> 0]
    /\ Len(multi_pattern_nfa.pattern) = 2

(***************************************************************************)
(* C16: run from the start state on any sequence of class ids, the         *)
(* minimized DFA accepts iff the DFA before minimization accepts, with the *)
(* same pattern id, and it has at most as many states.                     *)
(***************************************************************************)
C16_MinimizationEquivalence ==
    compiled.op = "Dfa::minimize"
    => /\ accepts_the_same(unminimized[1], minimized[1])
       /\ Len(minimized[1].states) <= Len(unminimized[1].states)

(***************************************************************************)
(* C17: in the result of minimize no two distinct states are equivalent.   *)
(***************************************************************************)
C17_MinimalDfa ==
    compiled.op = "Dfa::minimize"
    => \A pair \in equivalent_states(minimized[1], same_label(minimized[1])) :
            pair[1] = pair[2]

(***************************************************************************)
(* C18: if a pattern of the list fails to compile (regex syntax error or   *)
(* unsupported feature), generate_code returns that error and has written  *)
(* nothing to the output.                                                  *)
(***************************************************************************)
fails_to_compile(pattern) ==
    IsErr(MultiPatternDfa_add_pattern(MultiPatternDfaNew, pattern).result)

first_failing(patterns) ==
    Min({k \in DOMAIN patterns : fails_to_compile(patterns[k])})

error_of(pattern) == MultiPatternDfa_add_pattern(MultiPatternDfaNew, pattern).result

C18_CompileErrorsAbort ==
    (/\ compiled.op = "generate_code"
     /\ \E k \in DOMAIN compiled.pattern : fails_to_compile(compiled.pattern[k]))
    => /\ IsErr(compiled.result)
       /\ compiled.result.error =
            error_of(compiled.pattern[first_failing(compiled.pattern)]).error
       /\ compiled.result.error = "UnsupportedFeature"
            => compiled.result.index = first_failing(compiled.pattern) - 1
       /\ output = << >>

\* Code was generated for a list whose third pattern has a syntax error, after
\* two patterns that compile.
C18_Witness ==
    /\ compiled.op = "generate_code"
    /\ Len(compiled.pattern) = 3
    /\ ~fails_to_compile(compiled.pattern[1])
    /\ ~fails_to_compile(compiled.pattern[2])
    /\ compiled.pattern[1] # compiled.pattern[2]
    /\ compiled.pattern[3] = "a("
    /\ compiled.result.error = "RegexSyntaxError"
    /\ output = << >>

(***************************************************************************)
(* C19: the i-th entry of the emitted DFAS table is the DFA of the i-th    *)
(* pattern of the list, for every list, also one with the same pattern     *)
(* string more than once.                                                  *)
(***************************************************************************)
\* The entries of the DFAS table in the output.
emitted(out) == SelectSeq(out, LAMBDA piece : piece.w = "DfaData")

C19_DfasIndexedAsPatterns ==
    (compiled.op = "generate_code" /\ ~IsErr(compiled.result))
    => \A k \in DOMAIN compiled.pattern :
        /\ k <= Len(emitted(output))
        /\ emitted(output)[k].v.pattern = compiled.pattern[k]

(***************************************************************************)
(* C24: state 0 of the minimized DFA is the start state: in the partition  *)
(* minimize ends with, the group that holds the start state 0 of the DFA   *)
(* before minimization is the first one.                                   *)
(***************************************************************************)
\* The partition the loop of minimize ends with.
refined_from(dfa, partition_old) ==
    refine(dfa, partition_old, calculate_new_partition(dfa, partition_old))

final_partition(dfa) == refined_from(dfa, calculate_initial_partition(dfa))

C24_StartStateIsStateZero ==
    compiled.op = "Dfa::minimize"
    => find_group(0, final_partition(unminimized[1])) = 0

(***************************************************************************)
(* C25: the initial partition of minimize has exactly one group for each   *)
(* pattern id that labels an accepting state, holding all accepting states *)
(* of that pattern, and exactly one group holding all non-accepting        *)
(* states, and no other group.                                             *)
(***************************************************************************)
accepting_of(dfa, pattern) ==
    {state_id \in DOMAIN dfa.accepting_states : dfa.accepting_states[state_id] = pattern}

non_accepting(dfa) == (0..(Len(dfa.states) - 1)) \ DOMAIN dfa.accepting_states

groups_by_pattern(dfa) ==
    {accepting_of(dfa, dfa.accepting_states[state_id]) :
        state_id \in DOMAIN dfa.accepting_states}
    \cup ({non_accepting(dfa)} \ {{}})

C25_InitialPartition ==
    compiled.op = "Dfa::minimize"
    => /\ Range(calculate_initial_partition(unminimized[1]))
            = groups_by_pattern(unminimized[1])
       /\ Len(calculate_initial_partition(unminimized[1]))
            = Cardinality(groups_by_pattern(unminimized[1]))

(***************************************************************************)
(* C26: minimize() terminates for every DFA.  The number of groups never   *)
(* exceeds the number of states; an iteration of the loop that changes the *)
(* partition leaves strictly more groups than before; the loop ends at the *)
(* first iteration in which no group is split; so minimize() comes to      *)
(* return, and it returns what the loop has ended with.                    *)
(***************************************************************************)
groups_of(locals) == Len(locals[1].partition_old)

splits_a_group(dfa, groups) ==
    \E g \in DOMAIN groups : Len(split_group(dfa, groups[g], groups)) > 1

C26_MinimizeTerminates ==
    /\ [](minimizing # None => groups_of(minimizing) <= Len(unminimized[1].states))
    /\ [][(minimizing # None /\ minimizing' # None /\ minimizing' # minimizing)
            => /\ minimizing'[1].changed
                    = splits_a_group(unminimized[1], minimizing[1].partition_old)
               /\ minimizing'[1].changed
                    => groups_of(minimizing') > groups_of(minimizing)
               /\ ~minimizing'[1].changed
                    => minimizing'[1].partition_new = minimizing[1].partition_old]_vars
    /\ [](minimized # None => /\ ~minimizing[1].changed
                              /\ minimized[1] = minimize(unminimized[1]))
    /\ <>(minimized # None)

\* minimize() has returned after an iteration that has split a group, with
\* fewer groups than the DFA has states.
C26_Witness ==
    /\ minimized # None
    /\ minimizing # None
    /\ Len(minimizing[1].partition_new)
            > Len(calculate_initial_partition(unminimized[1]))
    /\ Len(minimizing[1].partition_new) < Len(unminimized[1].states)

(***************************************************************************)
(* C27: for any list of patterns added to a MultiPatternNfa, every DFA     *)
(* state the subset construction produces contains at most one accepting   *)
(* NFA state, so that the accepting NFA states of an accepting DFA state   *)
(* belong to exactly one pattern id.                                       *)
(***************************************************************************)
\* The pattern ids of the accepting NFA states among nfa_states.
patterns_accepted(nfa_states, accepting_states) ==
    {accepting_states[s] : s \in nfa_states \cap DOMAIN accepting_states}

C27_SingleAccept ==
    compiled.op = "Dfa::try_from"
    => /\ one_pattern_matches(try_from_nfa(multi_pattern_nfa),
                              multi_pattern_nfa.accepting_states)
       /\ \A state_id \in DOMAIN try_from_nfa(multi_pattern_nfa).accepting_states :
            Cardinality(patterns_accepted(
                try_from_nfa(multi_pattern_nfa).states[state_id + 1].nfa_states,
                multi_pattern_nfa.accepting_states)) = 1

(***************************************************************************)
(* C28: when the subset construction produces a DFA state that contains    *)
(* accepting NFA states of more than one pattern, Dfa::try_from returns    *)
(* the DFA construction error and no Dfa; it never returns a Dfa in which  *)
(* that state is labelled with one of the pattern ids.                     *)
(***************************************************************************)
\* DfaError::ConstructionError (errors.rs)
ConstructionError == [error |-> "DfaError::ConstructionError"]

\* The DFA states that hold accepting NFA states of more than one pattern.
multi_accepting(dfa, accepting_states) ==
    {state_id \in 0..(Len(dfa.states) - 1) :
        Cardinality(patterns_accepted(dfa.states[state_id + 1].nfa_states,
                                      accepting_states)) > 1}

C28_MultiAcceptIsAnError ==
    (/\ compiled.op = "Dfa::try_from"
     /\ multi_accepting(try_from_nfa(multi_pattern_nfa),
                        multi_pattern_nfa.accepting_states) # {})
    => /\ compiled.result = ConstructionError
       /\ unminimized = None

(***************************************************************************)
(* C29: in the Dfa of the subset construction and in the minimized Dfa     *)
(* every state has at most one outgoing edge for a class id, and no two    *)
(* states of the subset construction have the same set of NFA states.      *)
(***************************************************************************)
\* The edges of a Dfa: source state, class id and target state.
edges(dfa) ==
    UNION {{<<s, c, dfa.transitions[s][c]>> : c \in DOMAIN dfa.transitions[s]} :
           s \in DOMAIN dfa.transitions}

\* The edges are between states of the Dfa, over its character classes, and
\* two edges from one state over one class id are the same edge.
deterministic(dfa) ==
    /\ \A e \in edges(dfa) :
        /\ e[1] \in 0..(Len(dfa.states) - 1)
        /\ e[2] \in 0..(Len(dfa.char_classes) - 1)
        /\ e[3] \in 0..(Len(dfa.states) - 1)
    /\ \A e, f \in edges(dfa) : (e[1] = f[1] /\ e[2] = f[2]) => e[3] = f[3]

\* The edges of the Dfa between the groups of the partition.
edges_between_groups(dfa, partition) ==
    {<<find_group(e[1], partition), e[2], find_group(e[3], partition)>> : e \in edges(dfa)}

C29_Deterministic ==
    /\ unminimized # None
       => /\ deterministic(unminimized[1])
          /\ \A j, k \in DOMAIN unminimized[1].states :
                unminimized[1].states[j].nfa_states = unminimized[1].states[k].nfa_states
                => j = k
    /\ minimized # None
       => /\ deterministic(minimized[1])
          /\ edges(minimized[1])
                = edges_between_groups(unminimized[1], final_partition(unminimized[1]))

\* A Dfa with a state that edges from two states lead to, minimized to fewer
\* states.
C29_Witness ==
    /\ minimized # None
    /\ Len(minimized[1].states) < Len(unminimized[1].states)
    /\ \E e, f \in edges(unminimized[1]) : e[1] # f[1] /\ e[3] = f[3]
    /\ \E e, f \in edges(minimized[1]) : e[1] = f[1] /\ e[2] # f[2]

(***************************************************************************)
(* C30: the subset construction computes the reachable subset automaton.   *)
(* State 0 of the Dfa is the epsilon closure of NFA state 0; for every     *)
(* state T of the Dfa and every class c there is an edge from T over c     *)
(* exactly when U, the epsilon closure of move(T, c), is not empty, and    *)
(* the edge leads to the state whose NFA states are U; every state but     *)
(* state 0 is the target of an edge from an earlier state.  The epsilon    *)
(* closure of a set is the set of the NFA states reachable from it over    *)
(* epsilon edges, the states of the set included.                          *)
(***************************************************************************)
\* The NFA states reachable from the states of reached over at most n
\* epsilon edges.
RECURSIVE reachable_over_epsilon(_, _, _)
reachable_over_epsilon(states, reached, n) ==
    IF n = 0 \/ reached = {} THEN reached
    ELSE reachable_over_epsilon(states,
            reached \cup {t \in 0..(Len(states) - 1) :
                            \E s \in reached :
                                \E k \in DOMAIN states[s + 1].epsilon_transitions :
                                    states[s + 1].epsilon_transitions[k] = t},
            n - 1)

\* move(T, c): the targets of the transitions over c of the states of T.
reachable_over_class(states, T, c) ==
    {t \in 0..(Len(states) - 1) :
        \E s \in T : \E k \in DOMAIN states[s + 1].transitions :
            states[s + 1].transitions[k] = <<c, t>>}

\* U = epsilon-closure(move(T, c))
subset_reached(states, T, c) ==
    reachable_over_epsilon(states, reachable_over_class(states, T, c), Len(states))

has_edge(dfa, state_id, c) ==
    state_id \in DOMAIN dfa.transitions /\ c \in DOMAIN dfa.transitions[state_id]

is_subset_automaton(dfa, states) ==
    /\ dfa.states[1].nfa_states = reachable_over_epsilon(states, {0}, Len(states))
    /\ \A state_id \in 0..(Len(dfa.states) - 1), c \in 0..(Len(dfa.char_classes) - 1) :
        /\ has_edge(dfa, state_id, c)
           <=> subset_reached(states, dfa.states[state_id + 1].nfa_states, c) # {}
        /\ has_edge(dfa, state_id, c)
           => dfa.states[dfa.transitions[state_id][c] + 1].nfa_states
                = subset_reached(states, dfa.states[state_id + 1].nfa_states, c)
    /\ \A state_id \in 1..(Len(dfa.states) - 1) :
        \E e \in edges(dfa) : e[1] < state_id /\ e[3] = state_id

C30_SubsetConstruction ==
    unminimized # None => is_subset_automaton(unminimized[1], multi_pattern_nfa.nfa)

\* The Dfa of two patterns, with a state and a class without an edge and an
\* edge to a state with NFA states that are reached over epsilon edges only.
C30_Witness ==
    /\ unminimized # None
    /\ Len(unminimized[1].patterns) = 2
    /\ \E state_id \in 0..(Len(unminimized[1].states) - 1),
          c \in 0..(Len(unminimized[1].char_classes) - 1) :
            ~has_edge(unminimized[1], state_id, c)
    /\ \E e \in edges(unminimized[1]) :
            /\ e[3] # e[1]
            /\ Cardinality(unminimized[1].states[e[3] + 1].nfa_states)
                > Cardinality(reachable_over_class(multi_pattern_nfa.nfa,
                                unminimized[1].states[e[1] + 1].nfa_states, e[2])) + 1

(***************************************************************************)
(* C31: after compile(), state_ranges has one entry for each state of the  *)
(* minimized Dfa; for every state the transitions in its range are exactly *)
(* the outgoing edges of the state, with the same targets; the ranges of   *)
(* different states do not overlap, a state without outgoing edges has an  *)
(* empty range, and accepting_states is the sorted set of the accepting    *)
(* state ids.                                                              *)
(***************************************************************************)
\* The minimized Dfa MultiPatternDfa::add_pattern compiles for the pattern.
minimized_for(pattern) ==
    minimize(try_from_nfa(add_pattern(MultiPatternNfaNew, pattern).self))

\* The indices into transitions of the range of a state.
range_of(compiled_dfa, s) ==
    (compiled_dfa.state_ranges[s + 1][1] + 1)..compiled_dfa.state_ranges[s + 1][2]

\* The outgoing edges of state s of the Dfa: character class and target.
outgoing(dfa, s) ==
    IF s \in DOMAIN dfa.transitions
    THEN {<<dfa.char_classes[c + 1], dfa.transitions[s][c]>> :
            c \in DOMAIN dfa.transitions[s]}
    ELSE {}

\* The compiled transitions of the range of state s: character class of the
\* match function and target.
encoded(compiled_dfa, match_functions, s) ==
    {<<match_functions[compiled_dfa.transitions[k][1] + 1],
       compiled_dfa.transitions[k][2]>> : k \in range_of(compiled_dfa, s)}

encodes(compiled_dfa, match_functions, dfa) ==
    /\ Len(compiled_dfa.state_ranges) = Len(dfa.states)
    /\ \A s \in 0..(Len(dfa.states) - 1) :
        /\ range_of(compiled_dfa, s) \subseteq DOMAIN compiled_dfa.transitions
        /\ encoded(compiled_dfa, match_functions, s) = outgoing(dfa, s)
        /\ Cardinality(range_of(compiled_dfa, s)) = Cardinality(outgoing(dfa, s))
        /\ outgoing(dfa, s) = {} => range_of(compiled_dfa, s) = {}
        /\ \A t \in 0..(Len(dfa.states) - 1) :
            s # t => range_of(compiled_dfa, s) \cap range_of(compiled_dfa, t) = {}
    /\ Range(compiled_dfa.accepting_states) = DOMAIN dfa.accepting_states
    /\ \A j, k \in DOMAIN compiled_dfa.accepting_states :
        j < k => compiled_dfa.accepting_states[j] < compiled_dfa.accepting_states[k]

C31_EncodedRanges ==
    \A k \in DOMAIN multi_pattern_dfa.dfas :
        encodes(multi_pattern_dfa.dfas[k], multi_pattern_dfa.match_functions,
                minimized_for(multi_pattern_dfa.dfas[k].pattern))

\* Two compiled DFAs, the second one with a state without outgoing edges,
\* a state with two edges and a state whose range does not begin at 0.
C31_Witness ==
    /\ Len(multi_pattern_dfa.dfas) = 2
    /\ \E s, t, u \in 0..(Len(multi_pattern_dfa.dfas[2].state_ranges) - 1) :
        /\ range_of(multi_pattern_dfa.dfas[2], s) = {}
        /\ Cardinality(range_of(multi_pattern_dfa.dfas[2], t)) >= 2
        /\ range_of(multi_pattern_dfa.dfas[2], u) # {}
        /\ multi_pattern_dfa.dfas[2].state_ranges[u + 1][1] > 0
    /\ multi_pattern_dfa.dfas[2].accepting_states # << >>

(***************************************************************************)
(* C32: in the transitions of every compiled DFA the edges of a state are  *)
(* sorted by the class id they are emitted with, for every list of         *)
(* patterns compiled into one MultiPatternDfa.                             *)
(***************************************************************************)
sorted_by_class_id(compiled_dfa) ==
    \A s \in 0..(Len(compiled_dfa.state_ranges) - 1) :
        \A i, j \in range_of(compiled_dfa, s) :
            i < j => compiled_dfa.transitions[i][1] <= compiled_dfa.transitions[j][1]

C32_EdgesSortedByClassId ==
    \A k \in DOMAIN multi_pattern_dfa.dfas : sorted_by_class_id(multi_pattern_dfa.dfas[k])

(***************************************************************************)
(* C33: over all patterns compiled into one MultiPatternDfa, two edges are *)
(* emitted with the same class id exactly when their class ASTs have the   *)
(* same canonical string form; the emitted class ids are dense from 0 in   *)
(* the order of their first occurrence; and compiling a further pattern    *)
(* changes neither a compiled DFA nor a match function that is there.      *)
(***************************************************************************)
\* The string form of the AST of a character class.
canonical_form(ast) == ast.c

\* The class ASTs of the edges of the Dfa, in the order compile() visits
\* them: the states from s on in their order, the classes of a state in
\* the order of their ids.
RECURSIVE edge_classes_from(_, _)
edge_classes_from(dfa, s) ==
    IF s >= Len(dfa.states) THEN << >>
    ELSE IF s \notin DOMAIN dfa.transitions THEN edge_classes_from(dfa, s + 1)
    ELSE [j \in 1..Cardinality(DOMAIN dfa.transitions[s]) |->
            dfa.char_classes[keys(DOMAIN dfa.transitions[s])[j] + 1]]
         \o edge_classes_from(dfa, s + 1)

\* The class ASTs of the edges of the compiled DFAs from the k-th on.
RECURSIVE compiled_classes_from(_, _)
compiled_classes_from(compiled_dfas, k) ==
    IF k > Len(compiled_dfas) THEN << >>
    ELSE edge_classes_from(minimized_for(compiled_dfas[k].pattern), 0)
         \o compiled_classes_from(compiled_dfas, k + 1)

\* The class ids the edges of the compiled DFAs from the k-th on are
\* emitted with.
RECURSIVE emitted_class_ids_from(_, _)
emitted_class_ids_from(compiled_dfas, k) ==
    IF k > Len(compiled_dfas) THEN << >>
    ELSE [j \in DOMAIN compiled_dfas[k].transitions |-> compiled_dfas[k].transitions[j][1]]
         \o emitted_class_ids_from(compiled_dfas, k + 1)

class_predicate_table(classes, ids) ==
    /\ Len(classes) = Len(ids)
    /\ \A p, q \in DOMAIN ids :
        ids[p] = ids[q] <=> canonical_form(classes[p]) = canonical_form(classes[q])
    /\ \A p \in DOMAIN ids :
        \/ \E q \in 1..(p - 1) : ids[q] = ids[p]
        \/ ids[p] = Cardinality({ids[q] : q \in 1..(p - 1)})

is_prefix(s, t) == Len(s) <= Len(t) /\ SubSeq(t, 1, Len(s)) = s

class_ids_are_global ==
    class_predicate_table(compiled_classes_from(multi_pattern_dfa.dfas, 1),
                          emitted_class_ids_from(multi_pattern_dfa.dfas, 1))

C33_GlobalClassIds ==
    /\ []class_ids_are_global
    /\ [][/\ is_prefix(multi_pattern_dfa.dfas, multi_pattern_dfa'.dfas)
          /\ is_prefix(multi_pattern_dfa.match_functions,
                       multi_pattern_dfa'.match_functions)]_vars

\* The second compiled DFA has an edge with a class id of the first one and
\* an edge with a new class id, and the first one is as it was.
C33_Witness ==
    /\ compiled.op = "MultiPatternDfa::add_pattern"
    /\ Len(multi_pattern_dfa.dfas) = 2
    /\ Len(compiled.before.dfas) = 1
    /\ multi_pattern_dfa.dfas[1] = compiled.before.dfas[1]
    /\ \E j, k \in DOMAIN multi_pattern_dfa.dfas[2].transitions :
        /\ multi_pattern_dfa.dfas[2].transitions[j][1]
                < Len(compiled.before.match_functions)
        /\ multi_pattern_dfa.dfas[2].transitions[k][1]
                >= Len(compiled.before.match_functions)

(***************************************************************************)
(* C34: in the MultiPatternNfa two labelled edges have the same class id   *)
(* exactly when their class ASTs have the same canonical string form; the  *)
(* class ids are dense from 0 in the order of their first occurrence,      *)
(* char_classes[i] is the class with the id i, and adding a further        *)
(* pattern changes no id assigned before.                                  *)
(***************************************************************************)
\* The labels of the transitions of the states from the k-th on, in their
\* order.
RECURSIVE labels_from(_, _)
labels_from(states, k) ==
    IF k > Len(states) THEN << >>
    ELSE [j \in DOMAIN states[k].transitions |-> states[k].transitions[j][1]]
         \o labels_from(states, k + 1)

\* The class ASTs of the edges of the Nfas of the patterns from the k-th on.
RECURSIVE pattern_classes_from(_, _)
pattern_classes_from(patterns, k) ==
    IF k > Len(patterns) THEN << >>
    ELSE labels_from(Nfa_try_from(parse_regex_syntax(patterns[k])).states, 1)
         \o pattern_classes_from(patterns, k + 1)

registry(nfa, classes, ids) ==
    /\ class_predicate_table(classes, ids)
    /\ \A p \in DOMAIN ids :
        /\ ids[p] < Len(nfa.char_classes)
        /\ canonical_form(nfa.char_classes[ids[p] + 1]) = canonical_form(classes[p])
    /\ Len(nfa.char_classes) = Cardinality({ids[p] : p \in DOMAIN ids})

registry_is_canonical ==
    registry(multi_pattern_nfa, pattern_classes_from(multi_pattern_nfa.pattern, 1),
             labels_from(multi_pattern_nfa.nfa, 1))

C34_RegistryCanonical ==
    /\ []registry_is_canonical
    /\ [][/\ is_prefix(multi_pattern_nfa.char_classes, multi_pattern_nfa'.char_classes)
          /\ \A k \in DOMAIN multi_pattern_nfa.nfa :
                /\ k \in DOMAIN multi_pattern_nfa'.nfa
                /\ multi_pattern_nfa'.nfa[k].transitions
                        = multi_pattern_nfa.nfa[k].transitions]_vars

\* The second pattern has an edge with a class of the first pattern and an
\* edge with a new class, and the first pattern has a class twice.
C34_Witness ==
    /\ compiled.op = "MultiPatternNfa::add_pattern"
    /\ Len(multi_pattern_nfa.pattern) = 2
    /\ Len(compiled.before.pattern) = 1
    /\ Len(labels_from(compiled.before.nfa, 1)) > Len(compiled.before.char_classes)
    /\ Len(multi_pattern_nfa.char_classes) > Len(compiled.before.char_classes)
    /\ \E k \in (Len(compiled.before.nfa) + 1)..Len(multi_pattern_nfa.nfa) :
        \E j \in DOMAIN multi_pattern_nfa.nfa[k].transitions :
            multi_pattern_nfa.nfa[k].transitions[j][1] < Len(compiled.before.char_classes)

(***************************************************************************)
(* The construction of an Nfa as a state machine.  constructed holds an    *)
(* Nfa converted from an AST, the total offset its ids were shifted by and *)
(* the last call on it; a step is one call of concat, alternation,         *)
(* zero_or_one, one_or_more, zero_or_more or shift_ids on it, in a build   *)
(* with debug assertions or without them.  A call that indexes states out  *)
(* of bounds, or that fails the debug_assert! of Nfa::append, panics.      *)
(***************************************************************************)
MaxStates == 5
MaxShift == 3
MaxRepeat == 3
MaxMore == 2

\* The ASTs of the Nfas handed to concat and alternation.
NfaOperands ==
    <<Literal("a"), Concat(<<Literal("a"), Literal("b")>>),
      Repetition(ZeroOrOne, Literal("b"))>>

\* The ASTs that are repeated.
Repeated ==
    <<Literal("a"), Concat(<<Literal("a"), Literal("b")>>),
      Alternation(<<Literal("a"), Literal("b")>>)>>

\* The ASTs the Nfa under construction is converted from.
NfaAsts ==
    NfaOperands
    \o <<[kind |-> "Empty", c |-> ""]>>
    \o [k \in 1..Len(Repeated) |-> Repetition(AtLeast(MaxRepeat), Repeated[k])]

Constructed(op, operand, nfa, shifted, result, before) ==
    [op |-> op, operand |-> operand, nfa |-> nfa, shifted |-> shifted,
     result |-> result, before |-> before]

NfaReturns(op, operand, nfa) ==
    /\ constructed' = Constructed(op, operand, nfa, constructed.shifted, Unit,
                                  constructed.nfa)
    /\ UNCHANGED <<scanner_vars, builder_vars, matching_vars, minimize_vars,
                   multi_pattern_nfa, multi_pattern_dfa, output, compiled>>

NfaPanics(op, operand) ==
    /\ constructed' = Constructed(op, operand, constructed.nfa, constructed.shifted,
                                  Panic, constructed.nfa)
    /\ UNCHANGED <<scanner_vars, builder_vars, matching_vars, minimize_vars,
                   multi_pattern_nfa, multi_pattern_dfa, output, compiled>>

\* The debug_assert! of Nfa::append.
index_constraints(states) == \A k \in DOMAIN states : states[k].id = k - 1

\* Nfa::append panics in a build with debug assertions when the ids of the
\* states are not their indices.
append_panics(self, nfa, debug_assertions) ==
    /\ debug_assertions
    /\ ~index_constraints(self.states \o shift_ids(nfa, Len(self.states)).states)

\* Nfa::concat
NfaConcatReturns(self, operand, nfa, debug_assertions) ==
    IF is_empty(self) THEN NfaReturns("concat", operand, concat(self, nfa))
    ELSE IF \/ append_panics(self, nfa, debug_assertions)
            \/ self.end_state >= Len(self.states) + Len(nfa.states)
    THEN NfaPanics("concat", operand)
    ELSE NfaReturns("concat", operand, concat(self, nfa))

NfaConcat ==
    /\ ~IsPanic(constructed.result)
    /\ Len(constructed.nfa.states) <= MaxStates
    /\ \E operand \in DOMAIN NfaOperands, debug_assertions \in BOOLEAN :
        NfaConcatReturns(constructed.nfa, operand, Nfa_try_from(NfaOperands[operand]),
                         debug_assertions)

\* Nfa::alternation
NfaAlternationReturns(self, operand, nfa, debug_assertions) ==
    IF is_empty(self) THEN NfaReturns("alternation", operand, alternation(self, nfa))
    ELSE IF \/ append_panics(self, nfa, debug_assertions)
            \/ self.end_state >= Len(self.states) + Len(nfa.states) + 2
    THEN NfaPanics("alternation", operand)
    ELSE NfaReturns("alternation", operand, alternation(self, nfa))

NfaAlternation ==
    /\ ~IsPanic(constructed.result)
    /\ Len(constructed.nfa.states) <= MaxStates
    /\ \E operand \in DOMAIN NfaOperands, debug_assertions \in BOOLEAN :
        NfaAlternationReturns(constructed.nfa, operand,
                              Nfa_try_from(NfaOperands[operand]), debug_assertions)

\* Nfa::zero_or_one
NfaZeroOrOne ==
    /\ ~IsPanic(constructed.result)
    /\ Len(constructed.nfa.states) <= MaxStates
    /\ NfaReturns("zero_or_one", 0, zero_or_one(constructed.nfa))

\* Nfa::one_or_more
NfaOneOrMore ==
    /\ ~IsPanic(constructed.result)
    /\ Len(constructed.nfa.states) <= MaxStates
    /\ IF constructed.nfa.end_state >= Len(constructed.nfa.states) + 2
       THEN NfaPanics("one_or_more", 0)
       ELSE NfaReturns("one_or_more", 0, one_or_more(constructed.nfa))

\* Nfa::zero_or_more
NfaZeroOrMore ==
    /\ ~IsPanic(constructed.result)
    /\ Len(constructed.nfa.states) <= MaxStates
    /\ IF constructed.nfa.end_state >= Len(constructed.nfa.states) + 2
       THEN NfaPanics("zero_or_more", 0)
       ELSE NfaReturns("zero_or_more", 0, zero_or_more(constructed.nfa))

\* Nfa::shift_ids
NfaShiftIds ==
    /\ ~IsPanic(constructed.result)
    /\ \E by \in 1..MaxShift :
        /\ constructed.shifted + by <= MaxShift
        /\ constructed' = Constructed("shift_ids", by, shift_ids(constructed.nfa, by),
                                      constructed.shifted + by, Unit, constructed.nfa)
    /\ UNCHANGED <<scanner_vars, builder_vars, matching_vars, minimize_vars,
                   multi_pattern_nfa, multi_pattern_dfa, output, compiled>>

\* let nfa: Nfa = ast.try_into()?
NfaTryFrom(ast) ==
    constructed = Constructed("try_from", ast, Nfa_try_from(ast), 0, Unit, NfaNew)

NfaInit ==
    /\ \/ \E ast \in DOMAIN NfaAsts : NfaTryFrom(NfaAsts[ast])
       \/ \E k \in DOMAIN Repeated, least \in 0..MaxRepeat :
            \E most \in least..(least + MaxMore) :
                NfaTryFrom(Repetition(Bounded(least, most), Repeated[k]))
    /\ multi_pattern_nfa = << >>
    /\ multi_pattern_dfa = << >>
    /\ output = << >>
    /\ compiled = << >>
    /\ scanner_modes = << >>
    /\ current_mode = 0
    /\ dfas = << >>
    /\ input = << >>
    /\ char_indices = 0
    /\ returned = [op |-> "new"]
    /\ yielded = << >>
    /\ builder = ScannerBuilderNew
    /\ calls = << >>
    /\ MatchingAside
    /\ MinimizeAside

NfaNext ==
    \/ NfaConcat
    \/ NfaAlternation
    \/ NfaZeroOrOne
    \/ NfaOneOrMore
    \/ NfaZeroOrMore
    \/ NfaShiftIds

SpecNfa == NfaInit /\ [][NfaNext]_vars

(***************************************************************************)
(* C36: the construction invariant of an Nfa.                              *)
(***************************************************************************)
state_ids(nfa) == {nfa.states[k].id : k \in DOMAIN nfa.states}

\* states[i].id = i + total
ids_are_indices_plus(nfa, total) ==
    \A k \in DOMAIN nfa.states : nfa.states[k].id = k - 1 + total

\* Every edge target is the id of a state of the Nfa.
targets_are_states(nfa, ids) ==
    \A k \in DOMAIN nfa.states :
        /\ \A e \in DOMAIN nfa.states[k].epsilon_transitions :
            nfa.states[k].epsilon_transitions[e] \in ids
        /\ \A t \in DOMAIN nfa.states[k].transitions :
            nfa.states[k].transitions[t][2] \in ids

construction_invariant(nfa, total) ==
    /\ ids_are_indices_plus(nfa, total)
    /\ targets_are_states(nfa, state_ids(nfa))
    /\ nfa.start_state \in state_ids(nfa)
    /\ nfa.end_state \in state_ids(nfa)

\* after is before with by added to every state id, every edge target, the
\* start and the end, and nothing else changed.
shifted_by(before, after, by) ==
    /\ Len(after.states) = Len(before.states)
    /\ after.start_state = before.start_state + by
    /\ after.end_state = before.end_state + by
    /\ \A k \in DOMAIN before.states :
        /\ after.states[k].id = before.states[k].id + by
        /\ Len(after.states[k].epsilon_transitions)
            = Len(before.states[k].epsilon_transitions)
        /\ \A e \in DOMAIN before.states[k].epsilon_transitions :
            after.states[k].epsilon_transitions[e]
                = before.states[k].epsilon_transitions[e] + by
        /\ Len(after.states[k].transitions) = Len(before.states[k].transitions)
        /\ \A t \in DOMAIN before.states[k].transitions :
            /\ after.states[k].transitions[t][1] = before.states[k].transitions[t][1]
            /\ after.states[k].transitions[t][2]
                = before.states[k].transitions[t][2] + by

\* C36 as stated: after any sequence of concat, alternation, zero_or_one,
\* one_or_more, zero_or_more and shift_ids on an Nfa built from an AST,
\* states[i].id = i + (total offset), every edge target is the id of a state,
\* and the start and the end are ids of states.
C36_AnySequence ==
    ~IsPanic(constructed.result)
        => construction_invariant(constructed.nfa, constructed.shifted)

\* A call keeps the invariant when the Nfa it is made on was not shifted
\* before, or when the call is shift_ids.
keeps_invariant(before, after) ==
    (/\ construction_invariant(before.nfa, before.shifted)
     /\ before.shifted = 0 \/ after.op = "shift_ids")
        => /\ ~IsPanic(after.result)
           /\ construction_invariant(after.nfa, after.shifted)

shift_ids_adds_offset(before, after) ==
    after.op = "shift_ids" => shifted_by(before.nfa, after.nfa, after.operand)

\* C36, amended: an Nfa built from an AST has states[i].id = i, every edge
\* target the id of a state, and a start and an end that are ids of states;
\* concat, alternation, zero_or_one, one_or_more and zero_or_more on an Nfa
\* whose ids were not shifted keep this and do not panic; shift_ids(offset)
\* adds offset to every state id, every edge target, the start and the end,
\* so that states[i].id = i + (total offset) after it.
C36_ConstructionInvariant ==
    /\ construction_invariant(constructed.nfa, constructed.shifted)
    /\ [][/\ keeps_invariant(constructed, constructed')
          /\ shift_ids_adds_offset(constructed, constructed')]_vars

\* The ids of an Nfa that an alternation and a repetition built are shifted,
\* its start and end states not being its first and last states.
C36_Witness ==
    /\ constructed.op = "shift_ids"
    /\ constructed.shifted = 2
    /\ Len(constructed.nfa.states) >= 8
    /\ constructed.nfa.start_state # constructed.shifted
    /\ constructed.nfa.end_state # Len(constructed.nfa.states) - 1 + constructed.shifted
    /\ \E k \in DOMAIN constructed.nfa.states :
        Len(constructed.nfa.states[k].epsilon_transitions) = 2

(***************************************************************************)
(* C37: the Nfa of a bounded repetition.                                   *)
(***************************************************************************)
MaxWord == 6

Words == UNION {[1..n -> {"a", "b"}] : n \in 0..MaxWord}

\* The word is matched by the regular expression of the AST.
RECURSIVE matches(_, _)
RECURSIVE matches_all(_, _, _)
RECURSIVE matches_times(_, _, _)
matches(ast, w) ==
    CASE ast.kind = "Literal" -> w = <<ast.c>>
      [] ast.kind = "Concat" -> matches_all(ast.asts, 1, w)
      [] ast.kind = "Alternation" -> \E k \in DOMAIN ast.asts : matches(ast.asts[k], w)

\* w is made of words matched by asts[k], asts[k + 1], ... in this order.
matches_all(asts, k, w) ==
    IF k > Len(asts) THEN w = << >>
    ELSE \E i \in 0..Len(w) :
            /\ matches(asts[k], SubSeq(w, 1, i))
            /\ matches_all(asts, k + 1, SubSeq(w, i + 1, Len(w)))

\* w is made of n repetitions of ast.
matches_times(ast, n, w) ==
    IF n = 0 THEN w = << >>
    ELSE \E i \in 0..Len(w) :
            /\ matches(ast, SubSeq(w, 1, i))
            /\ matches_times(ast, n - 1, SubSeq(w, i + 1, Len(w)))

\* The states the Nfa is in after the characters w[i], w[i + 1], ... from the
\* states of S.
RECURSIVE nfa_run(_, _, _, _)
nfa_run(states, S, w, i) ==
    IF i > Len(w) THEN S
    ELSE nfa_run(states,
                 reachable_over_epsilon(
                    states, reachable_over_class(states, S, Literal(w[i])), Len(states)),
                 w, i + 1)

nfa_accepts(nfa, w) ==
    nfa.end_state
        \in nfa_run(nfa.states,
                    reachable_over_epsilon(nfa.states, {nfa.start_state}, Len(nfa.states)),
                    w, 1)

\* The copies a repetition is made of: least copies of x, then (most - least)
\* copies of x? (Bounded) or one copy of x* (AtLeast).
copies_of(op, x) ==
    [k \in 1..op.least |-> x]
    \o (IF op.kind = "Bounded" THEN [k \in 1..(op.most - op.least) |-> zero_or_one(x)]
        ELSE <<zero_or_more(x)>>)

\* The number of states of the copies before copy k.
RECURSIVE states_before(_, _)
states_before(copies, k) ==
    IF k <= 1 THEN 0 ELSE states_before(copies, k - 1) + Len(copies[k - 1].states)

\* State i of copy k, its ids shifted by the number of states before it, and
\* with an epsilon edge to the start of the next copy when it is the end state
\* of a copy that is not the last.
state_of_copy(copies, k, i, by) ==
    IF k < Len(copies) /\ copies[k].states[i].id = copies[k].end_state
    THEN [offset(copies[k].states[i], by)
            EXCEPT !.epsilon_transitions =
                Append(@, copies[k + 1].start_state + by + Len(copies[k].states))]
    ELSE offset(copies[k].states[i], by)

copies_at(nfa, copies, k, by) ==
    \A i \in DOMAIN copies[k].states :
        nfa.states[by + i] = state_of_copy(copies, k, i, by)

\* The Nfa is the concatenation of the copies.
is_concatenation(nfa, copies) ==
    IF copies = << >> THEN nfa = NfaNew
    ELSE /\ Len(nfa.states) = states_before(copies, Len(copies) + 1)
         /\ nfa.start_state = copies[1].start_state
         /\ nfa.end_state
                = copies[Len(copies)].end_state + states_before(copies, Len(copies))
         /\ \A k \in DOMAIN copies : copies_at(nfa, copies, k, states_before(copies, k))

\* The Nfa accepts exactly the words made of between least and most
\* repetitions of ast.
accepts_repetitions(nfa, ast, least, most) ==
    \A w \in Words :
        nfa_accepts(nfa, w) <=> \E n \in least..most : matches_times(ast, n, w)

is_repetition(nfa, ast) ==
    /\ is_concatenation(nfa, copies_of(ast.op, Nfa_try_from(ast.ast)))
    /\ accepts_repetitions(nfa, ast.ast, ast.op.least,
                           IF ast.op.kind = "Bounded" THEN ast.op.most ELSE MaxWord)

size_of(nfa) == <<Len(nfa.states), nfa.start_state, nfa.end_state>>

\* C37: the Nfa of x{n,m} is n concatenated copies of the Nfa of x followed by
\* (m - n) concatenated copies of the Nfa of x?, and accepts exactly the words
\* made of between n and m repetitions of x; the Nfa of x{n,} is n copies
\* followed by one copy of x*.  a{3,5} has 12 states, start 0 and end 10,
\* a{3,} has 10 states.
C37_BoundedRepetition ==
    (/\ constructed.op = "try_from"
     /\ constructed.operand.kind = "Repetition"
     /\ constructed.operand.op.kind \in {"Bounded", "AtLeast"})
        => /\ is_repetition(constructed.nfa, constructed.operand)
           /\ constructed.operand = Repetition(Bounded(3, 5), Literal("a"))
                => size_of(constructed.nfa) = <<12, 0, 10>>
           /\ constructed.operand = Repetition(AtLeast(3), Literal("a"))
                => size_of(constructed.nfa) = <<10, 0, 9>>

\* (a|b){2,4} is converted: its Nfa accepts a word of two characters and a
\* word of four, and no word of one character or of five.
C37_Witness ==
    /\ constructed.op = "try_from"
    /\ constructed.operand
        = Repetition(Bounded(2, 4), Alternation(<<Literal("a"), Literal("b")>>))
    /\ nfa_accepts(constructed.nfa, <<"a", "b">>)
    /\ nfa_accepts(constructed.nfa, <<"b", "b", "a", "a">>)
    /\ ~nfa_accepts(constructed.nfa, <<"a">>)
    /\ ~nfa_accepts(constructed.nfa, <<"a", "b", "a", "b", "a">>)

(***************************************************************************)
(* C35: the composition of the patterns in the MultiPatternNfa.            *)
(***************************************************************************)
\* The Nfa of a pattern on its own.
nfa_of(pattern) == Nfa_try_from(parse_regex_syntax(pattern))

\* The number of states of the MultiPatternNfa before the k-th pattern is
\* added: state 0 and the states of the patterns before it.
RECURSIVE shifted_for(_, _)
shifted_for(patterns, k) ==
    IF k <= 1 THEN 1
    ELSE shifted_for(patterns, k - 1) + Len(nfa_of(patterns[k - 1]).states)

\* State 0 has one epsilon edge to the shifted start state of each pattern,
\* in the order of the patterns, and no labelled edge.
start_edges(self) ==
    /\ self.nfa[1].transitions = << >>
    /\ self.nfa[1].epsilon_transitions
        = [k \in DOMAIN self.pattern |->
            nfa_of(self.pattern[k]).start_state + shifted_for(self.pattern, k)]

\* The accepting map holds one state for each pattern: its shifted end state,
\* mapped to the index of the pattern.
accepting_map(self) ==
    /\ Cardinality(DOMAIN self.accepting_states) = Len(self.pattern)
    /\ \A k \in DOMAIN self.pattern :
        /\ nfa_of(self.pattern[k]).end_state + shifted_for(self.pattern, k)
            \in DOMAIN self.accepting_states
        /\ self.accepting_states[nfa_of(self.pattern[k]).end_state
                                 + shifted_for(self.pattern, k)] = k - 1

\* The states of the k-th pattern are the states of its Nfa.
states_of_pattern(self, k, nfa, by) ==
    \A i \in DOMAIN nfa.states :
        /\ self.nfa[by + i].epsilon_transitions
            = [e \in DOMAIN nfa.states[i].epsilon_transitions |->
                nfa.states[i].epsilon_transitions[e] + by]
        /\ Len(self.nfa[by + i].transitions) = Len(nfa.states[i].transitions)
        /\ \A t \in DOMAIN nfa.states[i].transitions :
            self.nfa[by + i].transitions[t][2] = nfa.states[i].transitions[t][2] + by

composed(self) ==
    /\ start_edges(self)
    /\ accepting_map(self)
    /\ Len(self.nfa) = shifted_for(self.pattern, Len(self.pattern) + 1)
    /\ \A i \in DOMAIN self.nfa : self.nfa[i].id = i - 1
    /\ \A k \in DOMAIN self.pattern :
        states_of_pattern(self, k, nfa_of(self.pattern[k]), shifted_for(self.pattern, k))
    /\ \A j, k \in DOMAIN self.pattern : self.pattern[j] = self.pattern[k] => j = k

\* add_pattern returns the index of the pattern, which is the number of
\* patterns before it when it is a new one; a pattern that fails is not added.
pattern_id_returned(call, self) ==
    call.op = "MultiPatternNfa::add_pattern"
        => IF IsErr(call.result) THEN self = call.before
           ELSE /\ self.pattern[call.result.ok + 1] = call.pattern
                /\ is_prefix(call.before.pattern, self.pattern)
                /\ Len(self.pattern) > Len(call.before.pattern)
                    => call.result.ok = Len(call.before.pattern)

\* C35: after the distinct patterns p0..pk are added in this order, state 0
\* has exactly one epsilon edge to the shifted start state of the Nfa of each
\* pattern and no labelled edge, the accepting map holds exactly one state for
\* each pattern, its shifted end state mapped to its pattern id, the pattern
\* ids are 0..k in the order of insertion, and states[i].id = i (a then b:
\* accepting = {2 -> 0, 4 -> 1}).
C35_Composition ==
    /\ composed(multi_pattern_nfa)
    /\ pattern_id_returned(compiled, multi_pattern_nfa)
    /\ multi_pattern_nfa.pattern = <<"a", "b">>
        => multi_pattern_nfa.accepting_states = (2 :> 0) @@ (4 :> 1)

\* A second pattern is added whose start state is not its first state.
C35_Witness ==
    /\ compiled.op = "MultiPatternNfa::add_pattern"
    /\ compiled.result = [ok |-> 1]
    /\ Len(multi_pattern_nfa.pattern) = 2
    /\ multi_pattern_nfa.nfa[1].epsilon_transitions[2]
        # shifted_for(multi_pattern_nfa.pattern, 2)
    /\ Cardinality(DOMAIN multi_pattern_nfa.accepting_states) = 2

(***************************************************************************)
(* C38: the positions of the MatchingState and its state.                  *)
(***************************************************************************)
positions_follow_state(ms) ==
    /\ ms.end_position # None <=> ms.state \in {"Accepting", "Longest"}
    /\ ms.start_position # None <=> ms.state # "None"
    /\ (ms.start_position # None /\ ms.end_position # None)
        => ms.start_position[1] < ms.end_position[1]

span_in_accepting_and_longest(ms) ==
    IF ms.state \in {"Accepting", "Longest"}
    THEN last_match(ms)
            = Some([start |-> ms.start_position[1], end |-> ms.end_position[1]])
    ELSE last_match(ms) = None

\* C38: in every state reached from MatchingState::new by no_transition,
\* transition_to_non_accepting and transition_to_accepting, the end position
\* is set iff the state is Accepting or Longest, the start position is set iff
\* the state is not None, start < end when both are set, and last_match
\* returns a span exactly in the states Accepting and Longest.
C38_PositionsFollowState ==
    /\ positions_follow_state(matching_state)
    /\ span_in_accepting_and_longest(matching_state)

\* A match that began after the first character and was extended is kept as
\* the longest when no transition is found.
C38_Witness ==
    /\ stepped.op = "no_transition"
    /\ stepped.before.state = "Accepting"
    /\ matching_state.state = "Longest"
    /\ matching_state.start_position # None
    /\ matching_state.start_position[1] > 0
    /\ matching_state.end_position[1] > matching_state.start_position[1] + 1

(***************************************************************************)
(* C39: the match iterator terminates.                                     *)
(***************************************************************************)
NoneReturned == returned.op = "next_match" /\ returned.result = None

\* A call of next_match either returns a match and leaves the iterator at
\* least one character further, or returns None and leaves it at the end.
next_match_moves_on(before, after, result, inp) ==
    IF result # None THEN before < after /\ after <= Len(inp)
    ELSE after = Len(inp)

\* C39: on a finite input every call of next_match either returns a match
\* and moves the cursor forward by at least one character, or returns None
\* with the cursor at the end of the input; after the first None every later
\* call returns None.  So no more matches are yielded than the input has
\* characters.
C39_IteratorTerminates ==
    /\ [][returned'.op = "next_match"
            => next_match_moves_on(char_indices, char_indices', returned'.result,
                                   input)]_vars
    /\ [](NoneReturned => [](returned.op = "next_match" => returned.result = None))
    /\ [](Len(yielded) <= Len(input))

\* None is returned after two matches and a character that no DFA matches.
C39_Witness ==
    /\ NoneReturned
    /\ Len(yielded) = 2
    /\ char_indices = Len(input)
    /\ Off(input, Len(input)) > yielded[2].match.end
    /\ returned.at = Len(input)
====
